---------------------------- MODULE Spec2Model ----------------------------
(***************************************************************************)
(* BlueBeam Space detection (src/bluebeam_space_handler.py): the object    *)
(* scanner and the coordinate transformer of BlueBeamSpaceHandler.         *)
(*                                                                         *)
(* An object's raw text is a sequence of lexemes: "[" and "]" are lexemes  *)
(* of their own, every other lexeme is a whitespace-delimited word.  The   *)
(* code scans characters; a word that touches a bracket ("[1") fails       *)
(* float() exactly as the bracket lexeme does here, so the two scans agree *)
(* on every group.  Character indices (0-based, -1 for "not found") become *)
(* lexeme indices (1-based, 0 for "not found").                            *)
(*                                                                         *)
(* Coordinates are whole points.  Colour channels and opacity are kept in  *)
(* hundredths (100 is 1.0, 25 is 0.25).                                    *)
(*                                                                         *)
(* The detect endpoints and the result cache of src/space_api_server.py    *)
(* are modelled in a part of their own, with their own next-state relation *)
(* (NextApi); the handler's actions leave the server's variables alone.    *)
(*                                                                         *)
(* create_consolidated_equipment_pdfs of the same file has a part of its   *)
(* own as well (NextPdf), over an export folder and the function's locals. *)
(***************************************************************************)
EXTENDS Integers, Sequences, FiniteSets, TLC

VARIABLES
    doc,             \* the PDF behind pdf_path: [pages, objs]
    handle,          \* self.doc: "none" | "open" | "closed"
    ctx,             \* TRUE when the handler is used as a context manager
    pc,              \* position of the caller / of detect_all_spaces
    page_num,        \* loop variable of the association pass (0-based)
    xref,            \* loop variable of the object pass
    page_space_map,  \* xref -> page index (a function on a set of xrefs)
    spaces,          \* the local list `spaces`
    t,               \* index (1-based) of the marker the transform loop is at
    self_spaces,     \* self.spaces
    result,          \* what the call gave its caller: "none" | "list" | "exception"
    returned,        \* the lists the calls of detect_all_spaces have returned
    again,           \* TRUE when the caller calls detect_all_spaces repeatedly
    exported,        \* what export_spaces_json gave its caller
    files,           \* space_api_server: the file system, path -> bytes
    spaces_cache,    \* space_api_server.spaces_cache: file hash -> result
    reqs,            \* the request each server thread is handling
    scans,           \* file hash -> how often a request scanned under it
    started,         \* number of requests received so far
    serial,          \* no two detect requests have been in flight together
    cleared,         \* clear_cache was called
    export_folder,       \* the export folder: [project, original, items]
    pdf_pc,              \* position of create_consolidated_equipment_pdfs
    project_data,        \* its local project_data: [bound, equipment, originalPdfPath]
    extraction_metadata, \* its local extraction_metadata, in the order of the keys
    original_pdf_path,   \* its local original_pdf_path, "" for None
    remaining,           \* what its loop has still to visit
    pdfs_created,        \* its local pdfs_created
    consolidated         \* the PDFs it saved: equipment directory -> pages

coreVars == <<doc, handle, ctx, pc, page_num, xref, page_space_map, spaces, t,
              self_spaces, result, returned, again, exported>>

apiVars == <<files, spaces_cache, reqs, scans, started, serial, cleared>>

pdfVars == <<export_folder, pdf_pc, project_data, extraction_metadata,
             original_pdf_path, remaining, pdfs_created, consolidated>>

vars == <<doc, handle, ctx, pc, page_num, xref, page_space_map, spaces, t,
          self_spaces, result, returned, again, exported,
          files, spaces_cache, reqs, scans, started, serial, cleared,
          export_folder, pdf_pc, project_data, extraction_metadata,
          original_pdf_path, remaining, pdfs_created, consolidated>>

-----------------------------------------------------------------------------
(* Bounds of the explored inputs *)

MaxPages == 2
MaxGroups == 2
MaxCalls == 2

-----------------------------------------------------------------------------
(* float(): the numerals the inputs use, and what they convert to *)

\* float(x) for a coordinate word; a word outside the domain raises ValueError
NumeralValue ==
    ("0" :> 0) @@ ("1" :> 1) @@ ("7" :> 7) @@ ("10" :> 10) @@ ("20" :> 20) @@ ("30" :> 30)

IsNumeral(tok) == tok \in DOMAIN NumeralValue

\* float(x) for a colour / opacity word, in hundredths
ChannelValue ==
    ("0" :> 0) @@ ("1" :> 100) @@ ("0.5" :> 50) @@ ("2" :> 200)

\* the words the character class [\d\.] accepts
DigitDotWords == DOMAIN ChannelValue \cup {"1..2", "."}

-----------------------------------------------------------------------------
(* Generic sequence helpers *)

RECURSIVE SeqMin(_)
SeqMin(s) ==
    IF Len(s) = 1 THEN s[1]
    ELSE LET m == SeqMin(Tail(s)) IN IF s[1] < m THEN s[1] ELSE m

RECURSIVE SeqMax(_)
SeqMax(s) ==
    IF Len(s) = 1 THEN s[1]
    ELSE LET m == SeqMax(Tail(s)) IN IF s[1] > m THEN s[1] ELSE m

\* str.find(tok, from): first index >= i holding tok, 0 when there is none
RECURSIVE Find(_, _, _)
Find(s, tok, i) ==
    IF i > Len(s) THEN 0
    ELSE IF s[i] = tok THEN i
    ELSE Find(s, tok, i + 1)

-----------------------------------------------------------------------------
(* _extract_path_coordinates *)

\* the inner while loop: advance i while bracket_count > 0; gives <<i, bracket_count>>
RECURSIVE InnerScan(_, _, _)
InnerScan(s, i, bracket_count) ==
    IF i <= Len(s) /\ bracket_count > 0
    THEN InnerScan(s, i + 1,
                   IF s[i] = "[" THEN bracket_count + 1
                   ELSE IF s[i] = "]" THEN bracket_count - 1
                   ELSE bracket_count)
    ELSE <<i, bracket_count>>

\* mutant of GroupVertex: a group of one number makes a vertex too
GroupVertex_OneNumber(coord_str) ==
    IF \A k \in 1..Len(coord_str) : IsNumeral(coord_str[k])
    THEN IF Len(coord_str) >= 2
         THEN << <<NumeralValue[coord_str[1]], NumeralValue[coord_str[2]]>> >>
         ELSE IF Len(coord_str) = 1
         THEN << <<NumeralValue[coord_str[1]], NumeralValue[coord_str[1]]>> >>
         ELSE <<>>
    ELSE <<>>

\* coords = [float(x) for x in coord_str.split()]; <<>> stands for the
\* ValueError as well as for fewer than two numbers: both append nothing
GroupVertex(coord_str) ==
    IF \A k \in 1..Len(coord_str) : IsNumeral(coord_str[k])
    THEN IF Len(coord_str) >= 2
         THEN << <<NumeralValue[coord_str[1]], NumeralValue[coord_str[2]]>> >>
         ELSE <<>>
    ELSE <<>>

RECURSIVE ScanGroups(_, _, _)
ScanGroups(s, i, coordinates) ==
    IF i > Len(s) THEN coordinates
    ELSE IF s[i] = "["
    THEN LET start == i + 1
             r == InnerScan(s, i + 1, 1)
         IN  IF r[2] = 0
             THEN ScanGroups(s, r[1],
                             coordinates \o GroupVertex(SubSeq(s, start, r[1] - 2)))
             ELSE ScanGroups(s, r[1], coordinates)
    ELSE ScanGroups(s, i + 1, coordinates)

\* mutant of ExtractPathCoordinates: each vertex is put in front of the list
ExtractPathCoordinates_Reversed(path_str) ==
    LET c == ScanGroups(path_str, 1, <<>>)
    IN  [k \in 1..Len(c) |-> c[Len(c) + 1 - k]]

ExtractPathCoordinates(path_str) == ScanGroups(path_str, 1, <<>>)

-----------------------------------------------------------------------------
(* The document.  A page is [rotation, height, loadable, hasBSI, bsi_ref]:  *)
(* loadable is whether doc[page_num] succeeds, hasBSI whether the page      *)
(* dictionary holds "/BSISpaces <bsi_ref> 0 R".  An object is the text      *)
(* xref_object gives, by the parts the scanner reads:                       *)
(*   kind     "space" when the text holds "/Type /Space", "broken" when     *)
(*            xref_object raises, "array" / "other" otherwise               *)
(*   refs     the numbers n of every "n 0 R" in the text, in text order     *)
(*   hasTitle, title    "/Title (title)"                                    *)
(*   hasPath, tail      "/Path" and the lexemes from there to the end of    *)
(*            the text; arrays of later keys are left out of tail unless    *)
(*            the path value holds no "[" at all: behind a path array they  *)
(*            are balanced and cannot change where its bracket closes       *)
(*   hasC, color        "/C [color]"                                        *)
(*   hasCA, opacity     "/CA opacity"                                       *)

page_count(d) == Len(d.pages)

\* doc.xref_length(): object numbers run from 1 to xref_length - 1
xref_length(d) == Len(d.objs) + 1

ValidXref(d, x) == x >= 1 /\ x < xref_length(d)

-----------------------------------------------------------------------------
(* BlueBeamSpace: the marker record.  pymupdf_rect None is <<>>. *)

NoRect == <<>>

BlueBeamSpace(x, title, coordinates, page_number, color, opacity, bounds, area) ==
    [xref |-> x, title |-> title, coordinates |-> coordinates,
     page_number |-> page_number, color |-> color, opacity |-> opacity,
     bounds |-> bounds, area |-> area,
     pymupdf_rect |-> NoRect, transformation_method |-> "default"]

\* BlueBeamSpace.to_dict: asdict() copies every field under its own name
to_dict(space) ==
    [xref |-> space.xref, title |-> space.title, coordinates |-> space.coordinates,
     page_number |-> space.page_number, color |-> space.color,
     opacity |-> space.opacity, bounds |-> space.bounds, area |-> space.area,
     pymupdf_rect |-> space.pymupdf_rect,
     transformation_method |-> space.transformation_method]

-----------------------------------------------------------------------------
(* _extract_space_references *)

ExtractSpaceReferences(bsi_obj) == bsi_obj.refs

-----------------------------------------------------------------------------
(* _parse_space_object *)

\* mutant of MatchClose: the end of the text closes a bracket left open
RECURSIVE MatchClose_AtEnd(_, _, _)
MatchClose_AtEnd(s, i, bracket_count) ==
    IF i > Len(s) THEN (IF bracket_count > 0 THEN Len(s) + 1 ELSE 0)
    ELSE IF s[i] = "[" THEN MatchClose_AtEnd(s, i + 1, bracket_count + 1)
    ELSE IF s[i] = "]"
         THEN IF bracket_count - 1 = 0 THEN i
              ELSE MatchClose_AtEnd(s, i + 1, bracket_count - 1)
    ELSE MatchClose_AtEnd(s, i + 1, bracket_count)

\* the bracket-counting loop: index of the "]" at which bracket_count returns
\* to 0, 0 when the text ends first (bracket_end = -1)
RECURSIVE MatchClose(_, _, _)
MatchClose(s, i, bracket_count) ==
    IF i > Len(s) THEN 0
    ELSE IF s[i] = "[" THEN MatchClose(s, i + 1, bracket_count + 1)
    ELSE IF s[i] = "]"
         THEN IF bracket_count - 1 = 0 THEN i
              ELSE MatchClose(s, i + 1, bracket_count - 1)
    ELSE MatchClose(s, i + 1, bracket_count)

RECURSIVE FirstClose(_, _)
\* position of the first ")" of s at or behind k, Len(s) + 1 when there is none
FirstClose(s, k) ==
    IF k > Len(s) THEN k
    ELSE IF SubSeq(s, k, k) = ")" THEN k
    ELSE FirstClose(s, k + 1)

\* group 1 of r'/Title\s*\((.*?)\)' on "/Title (" title ")": obj.title is the
\* text between the delimiters of the string, and the lazy group ends at the
\* first ")" behind the opening one
TitleGroup(title) == SubSeq(title, 1, FirstClose(title, 1) - 1)

\* title_match.group(1) if title_match else f"Space_{xref}"
TitleOf(x, obj) ==
    IF obj.hasTitle THEN TitleGroup(obj.title) ELSE "Space_" \o ToString(x)

\* page_map.get(xref, 0)
PageNumberOf(x, page_map) == IF x \in DOMAIN page_map THEN page_map[x] ELSE 0

DefaultColor == <<0, 0, 100>>

\* re.search(r'/C\s*\[([\d\.\s]+)\]', obj_str) finds a match
ColorMatches(obj) ==
    obj.hasC /\ \A k \in 1..Len(obj.color) : obj.color[k] \in DigitDotWords

\* float() raises ValueError on one of the matched colour words
ColorRaises(obj) ==
    ColorMatches(obj) /\ \E k \in 1..Len(obj.color) : obj.color[k] \notin DOMAIN ChannelValue

ColorOf(obj) ==
    IF ColorMatches(obj) /\ Len(obj.color) >= 3
    THEN [k \in 1..3 |-> ChannelValue[obj.color[k]]]
    ELSE DefaultColor

DefaultOpacity == 25

\* re.search(r'/CA\s*([\d\.]+)', obj_str) finds a match
OpacityMatches(obj) == obj.hasCA /\ obj.opacity \in DigitDotWords

OpacityRaises(obj) == OpacityMatches(obj) /\ obj.opacity \notin DOMAIN ChannelValue

\* mutant of OpacityOf: an object without opacity is opaque
OpacityOf_Opaque(obj) ==
    IF OpacityMatches(obj) THEN ChannelValue[obj.opacity] ELSE 100

OpacityOf(obj) ==
    IF OpacityMatches(obj) THEN ChannelValue[obj.opacity] ELSE DefaultOpacity

\* mutant of BoundsOf: the first vertex taken for the minimum, the last for the maximum
BoundsOf_FirstLast(coordinates) ==
    [min_x |-> coordinates[1][1], min_y |-> coordinates[1][2],
     max_x |-> coordinates[Len(coordinates)][1],
     max_y |-> coordinates[Len(coordinates)][2]]

BoundsOf(coordinates) ==
    LET x_coords == [k \in 1..Len(coordinates) |-> coordinates[k][1]]
        y_coords == [k \in 1..Len(coordinates) |-> coordinates[k][2]]
    IN  [min_x |-> SeqMin(x_coords), min_y |-> SeqMin(y_coords),
         max_x |-> SeqMax(x_coords), max_y |-> SeqMax(y_coords)]

AreaOf(bounds) == (bounds.max_x - bounds.min_x) * (bounds.max_y - bounds.min_y)

\* path_str of an object whose path array closes; used after the two checks
PathStr(obj) ==
    LET bracket_start == Find(obj.tail, "[", 1)
        bracket_end == MatchClose(obj.tail, bracket_start, 0)
    IN  SubSeq(obj.tail, bracket_start + 1, bracket_end - 1)

\* Optional[BlueBeamSpace] as a sequence: <<>> is None, <<m>> is the marker m
ParseSpaceObject(x, obj, page_map) ==
    IF ~obj.hasPath THEN <<>>
    ELSE LET bracket_start == Find(obj.tail, "[", 1) IN
    IF bracket_start = 0 THEN <<>>
    ELSE IF MatchClose(obj.tail, bracket_start, 0) = 0 THEN <<>>
    ELSE LET coordinates == ExtractPathCoordinates(PathStr(obj)) IN
    IF coordinates = <<>> THEN <<>>
    ELSE IF ColorRaises(obj) \/ OpacityRaises(obj) THEN <<>>
    ELSE LET bounds == BoundsOf(coordinates) IN
         << BlueBeamSpace(x, TitleOf(x, obj), coordinates,
                          PageNumberOf(x, page_map), ColorOf(obj), OpacityOf(obj),
                          bounds, AreaOf(bounds)) >>

-----------------------------------------------------------------------------
(* _transform_space_coordinates *)

\* mutant of TransformRect: the flip subtracts but does not swap y0 and y1
TransformRect_NoSwap(space, page) ==
    LET b == BoundsOf(space.coordinates)
    IN  IF page.rotation = 0
        THEN [space EXCEPT
                 !.pymupdf_rect = <<b.min_x, page.height - b.min_y,
                                    b.max_x, page.height - b.max_y>>,
                 !.transformation_method = "y_flip_transformation"]
        ELSE [space EXCEPT
                 !.pymupdf_rect = <<b.min_x, b.min_y, b.max_x, b.max_y>>,
                 !.transformation_method =
                     IF page.rotation = 90 THEN "passthrough_90_rotation"
                     ELSE "rotation_normalization"]

\* mutant of TransformRect: the flip is applied whatever the rotation
TransformRect_FlipAll(space, page) ==
    LET b == BoundsOf(space.coordinates)
    IN  [space EXCEPT
            !.pymupdf_rect = <<b.min_x, page.height - b.max_y,
                               b.max_x, page.height - b.min_y>>,
            !.transformation_method =
                IF page.rotation = 0 THEN "y_flip_transformation"
                ELSE IF page.rotation = 90 THEN "passthrough_90_rotation"
                ELSE "rotation_normalization"]

\* mutant of TransformRect: the tags of the two pass-through branches are exchanged
TransformRect_TagsSwapped(space, page) ==
    LET b == BoundsOf(space.coordinates)
    IN  IF page.rotation = 0
        THEN [space EXCEPT
                 !.pymupdf_rect = <<b.min_x, page.height - b.max_y,
                                    b.max_x, page.height - b.min_y>>,
                 !.transformation_method = "y_flip_transformation"]
        ELSE [space EXCEPT
                 !.pymupdf_rect = <<b.min_x, b.min_y, b.max_x, b.max_y>>,
                 !.transformation_method =
                     IF page.rotation = 90 THEN "rotation_normalization"
                     ELSE "passthrough_90_rotation"]

\* the rectangle and the tag for a page that loaded
TransformRect(space, page) ==
    LET b == BoundsOf(space.coordinates)
        x0 == b.min_x
        y0 == b.min_y
        x1 == b.max_x
        y1 == b.max_y
    IN  IF page.rotation = 0
        THEN [space EXCEPT
                 !.pymupdf_rect = <<x0, page.height - y1, x1, page.height - y0>>,
                 !.transformation_method = "y_flip_transformation"]
        ELSE IF page.rotation = 90
        THEN [space EXCEPT
                 !.pymupdf_rect = <<x0, y0, x1, y1>>,
                 !.transformation_method = "passthrough_90_rotation"]
        ELSE [space EXCEPT
                 !.pymupdf_rect = <<x0, y0, x1, y1>>,
                 !.transformation_method = "rotation_normalization"]

\* the early return of the method: no open document or page_number out of range
TransformSkips(d, h, space) == h # "open" \/ space.page_number >= page_count(d)

\* self.doc[space.page_number] raises
TransformRaises(d, h, space) ==
    ~TransformSkips(d, h, space) /\ ~d.pages[space.page_number + 1].loadable

\* mutant of TransformSpaceCoordinates: a marker whose page is out of range
\* gets its bounds as rectangle instead of none
TransformSpaceCoordinates_Guess(d, h, space) ==
    IF h # "open" THEN space
    ELSE IF space.page_number >= page_count(d)
    THEN LET b == BoundsOf(space.coordinates)
         IN  [space EXCEPT !.pymupdf_rect = <<b.min_x, b.min_y, b.max_x, b.max_y>>,
                           !.transformation_method = "rotation_normalization"]
    ELSE TransformRect(space, d.pages[space.page_number + 1])

TransformSpaceCoordinates(d, h, space) ==
    IF TransformSkips(d, h, space) THEN space
    ELSE TransformRect(space, d.pages[space.page_number + 1])

-----------------------------------------------------------------------------
(* detect_all_spaces: one iteration of the association pass *)

\* self.doc.xref_object(x) raises: x is no object number, or the object is unreadable
XrefObjectRaises(d, x) == ~ValidXref(d, x) \/ d.objs[x].kind = "broken"

\* the try block raised for page page_num_ (0-based): the page does not load,
\* or the object "/BSISpaces n 0 R" names cannot be fetched
AssocRaises(d, page_num_) ==
    LET page == d.pages[page_num_ + 1]
    IN  \/ ~page.loadable
        \/ page.hasBSI /\ XrefObjectRaises(d, page.bsi_ref)

\* mutant of MapRefs: a reference already in the map keeps its first page
MapRefs_KeepFirst(page_map, space_refs, page_num_) ==
    LET named == {space_refs[k] : k \in 1..Len(space_refs)}
    IN  [r \in DOMAIN page_map \cup named |->
            IF r \in DOMAIN page_map THEN page_map[r] ELSE page_num_]

\* for space_ref in space_refs: page_space_map[space_ref] = page_num
MapRefs(page_map, space_refs, page_num_) ==
    LET named == {space_refs[k] : k \in 1..Len(space_refs)}
    IN  [r \in DOMAIN page_map \cup named |->
            IF r \in named THEN page_num_ ELSE page_map[r]]

\* mutant of AssocPageMap: a page that fails empties the map
AssocPageMap_Abort(d, page_map, page_num_) ==
    LET page == d.pages[page_num_ + 1]
    IN  IF AssocRaises(d, page_num_) THEN <<>>
        ELSE IF page.hasBSI
        THEN MapRefs(page_map, ExtractSpaceReferences(d.objs[page.bsi_ref]), page_num_)
        ELSE page_map

\* page_space_map after the iteration for page page_num_
AssocPageMap(d, page_map, page_num_) ==
    LET page == d.pages[page_num_ + 1]
    IN  IF AssocRaises(d, page_num_) THEN page_map
        ELSE IF page.hasBSI
        THEN MapRefs(page_map, ExtractSpaceReferences(d.objs[page.bsi_ref]), page_num_)
        ELSE page_map

-----------------------------------------------------------------------------
(* detect_all_spaces: one iteration of the object pass *)

\* mutant of ScanObjectSpaces: an object no page was associated with is skipped
ScanObjectSpaces_OnlyMapped(d, sp, x, page_map) ==
    IF XrefObjectRaises(d, x) THEN sp
    ELSE IF d.objs[x].kind = "space" /\ x \in DOMAIN page_map
    THEN sp \o ParseSpaceObject(x, d.objs[x], page_map)
    ELSE sp

\* mutant of ScanObjectSpaces: an object that cannot be fetched ends the pass
\* with nothing collected
ScanObjectSpaces_Abort(d, sp, x, page_map) ==
    IF XrefObjectRaises(d, x) THEN <<>>
    ELSE IF d.objs[x].kind = "space"
    THEN sp \o ParseSpaceObject(x, d.objs[x], page_map)
    ELSE sp

\* mutant of ScanObjectSpaces: a new marker is put in front of the list
ScanObjectSpaces_Prepend(d, sp, x, page_map) ==
    IF XrefObjectRaises(d, x) THEN sp
    ELSE IF d.objs[x].kind = "space"
    THEN ParseSpaceObject(x, d.objs[x], page_map) \o sp
    ELSE sp

\* the list `spaces` after the iteration for object x
ScanObjectSpaces(d, sp, x, page_map) ==
    IF XrefObjectRaises(d, x) THEN sp
    ELSE IF d.objs[x].kind = "space"
    THEN sp \o ParseSpaceObject(x, d.objs[x], page_map)
    ELSE sp

-----------------------------------------------------------------------------
(* Where control goes when a loop has no (more) iterations *)

PcAfterScan(sp) == IF Len(sp) > 0 THEN "transform" ELSE "return"

PcAfterAssoc(d) == IF xref_length(d) > 1 THEN "scan" ELSE "return"

PcAfterOpen(d) == IF page_count(d) > 0 THEN "assoc" ELSE PcAfterAssoc(d)

-----------------------------------------------------------------------------
(* get_spaces_for_page, get_page_info, export_spaces_json *)

RECURSIVE SelectSpaces(_, _, _)
\* get_spaces_for_page over the first k markers of the list
SelectSpaces(sp, page_number, k) ==
    IF k = 0 THEN <<>>
    ELSE IF sp[k].page_number = page_number
    THEN Append(SelectSpaces(sp, page_number, k - 1), sp[k])
    ELSE SelectSpaces(sp, page_number, k - 1)

\* mutant of get_spaces_for_page: the markers of the pages up to the given one
get_spaces_for_page_UpTo(sp, page_number) ==
    SelectSeq(sp, LAMBDA space : space.page_number <= page_number)

\* [space for space in self.spaces if space.page_number == page_number]
get_spaces_for_page(sp, page_number) == SelectSpaces(sp, page_number, Len(sp))

\* get_page_info for a page that loads (width and mediabox are left out)
get_page_info(d, page_number) ==
    [page_number |-> page_number,
     height |-> d.pages[page_number + 1].height,
     rotation |-> d.pages[page_number + 1].rotation]

\* the path the handler was made with
pdf_path == "/in/plan.pdf"

RECURSIVE LastSlash(_, _)
\* the position of the last "/" of s at or before k, 0 when there is none
LastSlash(s, k) ==
    IF k = 0 THEN 0
    ELSE IF SubSeq(s, k, k) = "/" THEN k
    ELSE LastSlash(s, k - 1)

\* Path(path).name
PathName(path) == SubSeq(path, LastSlash(path, Len(path)) + 1, Len(path))

\* page_info of export_spaces_json: get_page_info with space_count and
\* space_xrefs added
ExportPageInfo(d, sp, page_number) ==
    LET page_spaces == get_spaces_for_page(sp, page_number)
    IN  get_page_info(d, page_number) @@
        [space_count |-> Len(page_spaces),
         space_xrefs |-> [k \in 1..Len(page_spaces) |-> page_spaces[k].xref]]

\* `self.doc` as a condition, for a handle that was not closed: None is false,
\* and a document is as true as its length, the page count, is nonzero
DocTruthy(d, h) == h = "open" /\ page_count(d) > 0

\* export_spaces_json raises: the document was closed (its page count cannot
\* be read), or get_page_info cannot load a page
ExportRaises(d, h) ==
    \/ h = "closed"
    \/ DocTruthy(d, h) /\ \E k \in 1..page_count(d) : ~d.pages[k].loadable

\* spaces_data of export_spaces_json
export_spaces_json(path, d, h, sp) ==
    [pdf_file |-> PathName(path),
     page_count |-> IF DocTruthy(d, h) THEN page_count(d) ELSE 0,
     total_spaces |-> Len(sp),
     spaces |-> [k \in 1..Len(sp) |-> to_dict(sp[k])],
     pages |-> IF DocTruthy(d, h)
               THEN [k \in 1..page_count(d) |-> ExportPageInfo(d, sp, k - 1)]
               ELSE <<>>]

-----------------------------------------------------------------------------
(* Actions *)

\* __enter__: `with BlueBeamSpaceHandler(path) as handler`
Enter ==
    /\ pc = "new"
    /\ handle' = "open"
    /\ ctx' = TRUE
    /\ pc' = "entered"
    /\ UNCHANGED <<doc, page_num, xref, page_space_map, spaces, t, self_spaces,
                   result, returned, again, exported>>
    /\ UNCHANGED <<apiVars, pdfVars>>

\* mutant of Detect: the list of the call before is kept and appended to
Detect_KeepSpaces ==
    /\ \/ pc \in {"new", "entered"}
       \/ pc = "after" /\ result = "list" /\ again /\ Len(returned) < MaxCalls
    /\ handle' = "open"
    /\ page_space_map' = <<>>
    /\ spaces' = self_spaces
    /\ page_num' = 0
    /\ xref' = 1
    /\ t' = 1
    /\ pc' = PcAfterOpen(doc)
    /\ UNCHANGED <<doc, ctx, self_spaces, result, returned, again, exported>>
    /\ UNCHANGED <<apiVars, pdfVars>>

\* detect_all_spaces is called, for the first time or again after it returned
\* a list: open the document if none is open, empty locals
Detect ==
    /\ \/ pc \in {"new", "entered"}
       \/ pc = "after" /\ result = "list" /\ again /\ Len(returned) < MaxCalls
    /\ handle' = "open"
    /\ page_space_map' = <<>>
    /\ spaces' = <<>>
    /\ page_num' = 0
    /\ xref' = 1
    /\ t' = 1
    /\ pc' = PcAfterOpen(doc)
    /\ UNCHANGED <<doc, ctx, self_spaces, result, returned, again, exported>>
    /\ UNCHANGED <<apiVars, pdfVars>>

\* one iteration of `for page_num in range(self.doc.page_count)`
AssocPage ==
    /\ pc = "assoc"
    /\ page_space_map' = AssocPageMap(doc, page_space_map, page_num)
    /\ page_num' = page_num + 1
    /\ pc' = IF page_num + 1 < page_count(doc) THEN "assoc" ELSE PcAfterAssoc(doc)
    /\ UNCHANGED <<doc, handle, ctx, xref, spaces, t, self_spaces, result, returned, again, exported>>
    /\ UNCHANGED <<apiVars, pdfVars>>

\* one iteration of `for xref in range(1, self.doc.xref_length())`
ScanObject ==
    /\ pc = "scan"
    /\ spaces' = ScanObjectSpaces(doc, spaces, xref, page_space_map)
    /\ xref' = xref + 1
    /\ pc' = IF xref + 1 < xref_length(doc) THEN "scan" ELSE PcAfterScan(spaces')
    /\ UNCHANGED <<doc, handle, ctx, page_num, page_space_map, t, self_spaces, result,
                   returned, again, exported>>
    /\ UNCHANGED <<apiVars, pdfVars>>

\* one iteration of `for space in spaces`; an exception of the page load is
\* not caught and leaves detect_all_spaces
TransformSpace ==
    /\ pc = "transform"
    /\ IF TransformRaises(doc, handle, spaces[t])
       THEN /\ result' = "exception"
            /\ pc' = "after"
            /\ UNCHANGED <<spaces, t>>
       ELSE /\ spaces' = [spaces EXCEPT ![t] = TransformSpaceCoordinates(doc, handle, @)]
            /\ t' = t + 1
            /\ pc' = IF t + 1 <= Len(spaces) THEN "transform" ELSE "return"
            /\ UNCHANGED result
    /\ UNCHANGED <<doc, handle, ctx, page_num, xref, page_space_map, self_spaces,
                   returned, again, exported>>
    /\ UNCHANGED <<apiVars, pdfVars>>

\* self.spaces = spaces; return spaces
Return ==
    /\ pc = "return"
    /\ self_spaces' = spaces
    /\ result' = "list"
    /\ returned' = Append(returned, spaces)
    /\ pc' = "after"
    /\ UNCHANGED <<doc, handle, ctx, page_num, xref, page_space_map, spaces, t, again,
                   exported>>
    /\ UNCHANGED <<apiVars, pdfVars>>

\* __exit__: the with block is left, by return or by exception
Exit ==
    /\ pc = "after"
    /\ ctx
    /\ handle' = IF DocTruthy(doc, handle) THEN "closed" ELSE handle
    /\ pc' = "end"
    /\ UNCHANGED <<doc, ctx, page_num, xref, page_space_map, spaces, t, self_spaces,
                   result, returned, again, exported>>
    /\ UNCHANGED <<apiVars, pdfVars>>

\* the caller exports the list detect_all_spaces returned (once)
Export ==
    /\ pc = "after"
    /\ result = "list"
    /\ exported.status = "none"
    /\ exported' = IF ExportRaises(doc, handle)
                   THEN [status |-> "raised"]
                   ELSE [status |-> "json",
                         data |-> export_spaces_json(pdf_path, doc, handle, self_spaces)]
    /\ UNCHANGED <<doc, handle, ctx, pc, page_num, xref, page_space_map, spaces, t,
                   self_spaces, result, returned, again>>
    /\ UNCHANGED <<apiVars, pdfVars>>

Next ==
    Enter \/ Detect \/ AssocPage \/ ScanObject \/ TransformSpace \/ Return \/ Export \/ Exit

-----------------------------------------------------------------------------
(* detect_all_spaces as a function of the document: the three passes run to  *)
(* their ends on an open document                                            *)

RECURSIVE AssocFrom(_, _, _)
\* page_space_map after the association pass, from page page_num_ on
AssocFrom(d, page_map, page_num_) ==
    IF page_num_ >= page_count(d) THEN page_map
    ELSE AssocFrom(d, AssocPageMap(d, page_map, page_num_), page_num_ + 1)

RECURSIVE ScanFrom(_, _, _, _)
\* the list `spaces` after the object pass, from object x on
ScanFrom(d, sp, x, page_map) ==
    IF x >= xref_length(d) THEN sp
    ELSE ScanFrom(d, ScanObjectSpaces(d, sp, x, page_map), x + 1, page_map)

\* the list `spaces` the transform pass starts with
ScannedSpaces(d) == ScanFrom(d, <<>>, 1, AssocFrom(d, <<>>, 0))

\* the transform pass raises: some marker's page does not load
DetectRaises(d) ==
    \E k \in 1..Len(ScannedSpaces(d)) : TransformRaises(d, "open", ScannedSpaces(d)[k])

\* the list detect_all_spaces returns (when the transform pass does not raise)
DetectAllSpaces(d) ==
    [k \in 1..Len(ScannedSpaces(d)) |->
        TransformSpaceCoordinates(d, "open", ScannedSpaces(d)[k])]

-----------------------------------------------------------------------------
(* Input documents *)

Page(rotation, height, loadable, hasBSI, bsi_ref) ==
    [rotation |-> rotation, height |-> height, loadable |-> loadable,
     hasBSI |-> hasBSI, bsi_ref |-> bsi_ref]

Obj(kind, refs, hasPath, tail) ==
    [kind |-> kind, refs |-> refs, hasTitle |-> FALSE, title |-> "",
     hasPath |-> hasPath, tail |-> tail, hasC |-> FALSE, color |-> <<>>,
     hasCA |-> FALSE, opacity |-> ""]

BrokenObj == Obj("broken", <<>>, FALSE, <<>>)
ArrayObj(refs) == Obj("array", refs, FALSE, <<>>)
SpaceObj(tail) == Obj("space", <<>>, TRUE, tail)

\* the path [[10 10] [10 20] [30 20] [30 10]]
FixtureTail ==
    <<"[", "[", "10", "10", "]", "[", "10", "20", "]",
           "[", "30", "20", "]", "[", "30", "10", "]", "]">>

FixtureObj == SpaceObj(FixtureTail)

\* a titled, coloured marker with the path [[20 30] [10 7]]
StyledObj ==
    [SpaceObj(<<"[", "[", "20", "30", "]", "[", "10", "7", "]", "]">>) EXCEPT
        !.hasTitle = TRUE, !.title = "Room A",
        !.hasC = TRUE, !.color = <<"1", "0.5", "0">>,
        !.hasCA = TRUE, !.opacity = "0.5"]

\* a Space whose path array holds no group: no vertex
EmptyPathObj == SpaceObj(<<"[", "]">>)

Heights == {100, 40}
Rotations == {0, 90, 180, 270}

\* no server: the variables of space_api_server stay as they are here
ApiIdle ==
    /\ files = <<>>
    /\ spaces_cache = <<>>
    /\ reqs = <<>>
    /\ scans = <<>>
    /\ started = 0
    /\ serial = TRUE
    /\ cleared = FALSE

CoreControl ==
    /\ handle = "none"
    /\ ctx = FALSE
    /\ pc = "new"
    /\ page_num = 0
    /\ xref = 1
    /\ t = 1
    /\ page_space_map = <<>>
    /\ spaces = <<>>
    /\ self_spaces = <<>>
    /\ result = "none"
    /\ returned = <<>>
    /\ exported = [status |-> "none"]

\* no call of create_consolidated_equipment_pdfs: its variables stay as they
\* are here
PdfIdle ==
    /\ export_folder = <<>>
    /\ pdf_pc = "idle"
    /\ project_data = [bound |-> FALSE]
    /\ extraction_metadata = <<>>
    /\ original_pdf_path = ""
    /\ remaining = {}
    /\ pdfs_created = 0
    /\ consolidated = <<>>

InitControl == CoreControl /\ ApiIdle /\ PdfIdle

(* Spec: documents that vary the page -> array -> object links.  Objects 1  *)
(* and 2 are annotation arrays, objects 3 and 4 Space candidates; a page    *)
(* names array 1, array 2, object 5 (no such object) or has no key, and a   *)
(* page may fail to load.                                                   *)

LinkArrays == {ArrayObj(<<3>>), ArrayObj(<<3, 4>>), ArrayObj(<<4, 2>>), BrokenObj}
LinkSpaces == {FixtureObj, StyledObj, EmptyPathObj, BrokenObj}

LinkPages ==
    {Page(0, 100, FALSE, FALSE, 0), Page(0, 100, FALSE, TRUE, 1),
     Page(0, 100, TRUE, FALSE, 0)}
    \cup {Page(0, 100, TRUE, TRUE, r) : r \in {1, 2, 5}}

LinkDocs ==
    {[pages |-> ps, objs |-> <<a1, a2, s3, s4>>] :
        ps \in UNION {[1..n -> LinkPages] : n \in 0..MaxPages},
        a1 \in LinkArrays, a2 \in LinkArrays, s3 \in LinkSpaces, s4 \in LinkSpaces}

Init == doc \in LinkDocs /\ InitControl /\ again = FALSE

Spec == Init /\ [][Next]_vars

-----------------------------------------------------------------------------
(* SpecPath: documents that vary the path text of object 1 and the page it  *)
(* lands on.  Object 2 is the fixture marker.                               *)

PathNumerals == {"10", "20"}
PathPoints == PathNumerals \X PathNumerals

RECURSIVE EncodeGroups(_)
EncodeGroups(points) ==
    IF points = <<>> THEN <<>>
    ELSE <<"[", points[1][1], points[1][2], "]">> \o EncodeGroups(Tail(points))

\* the path array text "[[x1 y1] [x2 y2] ...]" of a list of points
EncodePath(points) == <<"[">> \o EncodeGroups(points) \o <<"]">>

PointLists == UNION {[1..n -> PathPoints] : n \in 0..MaxGroups}

WellFormedTails == {EncodePath(points) : points \in PointLists} \cup {FixtureTail}

IsBracket(tok) == tok \in {"[", "]"}

DeleteAt(s, i) == SubSeq(s, 1, i - 1) \o SubSeq(s, i + 1, Len(s))
InsertAt(s, i, tok) == SubSeq(s, 1, i) \o <<tok>> \o SubSeq(s, i + 1, Len(s))

\* a well-formed path with one bracket removed, or one bracket added, anywhere
UnbalancedTails ==
    UNION {{DeleteAt(s, i) : i \in {k \in 1..Len(s) : IsBracket(s[k])}}
           \cup {InsertAt(s, i, b) : i \in 0..Len(s), b \in {"[", "]"}}
           : s \in WellFormedTails}

\* groups that are not a plain pair, and path values that are not an array
OddTails ==
    { <<"[", "[", "10", "20", "30", "]", "]">>,
      <<"[", "[", "10", "]", "[", "20", "30", "]", "]">>,
      <<"[", "[", "]", "[", "20", "30", "]", "]">>,
      <<"[", "[", "x", "10", "]", "[", "20", "30", "]", "]">>,
      <<"[", "[", "10", "20", "x", "]", "[", "20", "30", "]", "]">>,
      <<"[", "[", "10", "20", "[", "30", "]", "]", "[", "20", "30", "]", "]">>,
      <<"[", "[", "[", "10", "20", "]", "]", "]">>,
      <<"[", "10", "20", "]">>,
      <<"[", "[", "10", "]", "]">>,
      <<"[", "[", "]", "]">>,
      <<"[", "[", "x", "10", "]", "]">>,
      <<"7", "0", "R">>,
      <<"7", "0", "R", "[", "0", "0", "1", "]">>,
      <<>> }

PathTails == WellFormedTails \cup UnbalancedTails \cup OddTails

PathObjs == {SpaceObj(tail) : tail \in PathTails} \cup {Obj("space", <<>>, FALSE, <<>>)}

PathPages ==
    {<<>>, <<Page(0, 100, FALSE, FALSE, 0)>>}
    \cup {<<Page(r, h, TRUE, FALSE, 0)>> : r \in Rotations, h \in Heights}

PathDocs == {[pages |-> ps, objs |-> <<o, FixtureObj>>] : ps \in PathPages, o \in PathObjs}

InitPath == doc \in PathDocs /\ InitControl /\ again = FALSE

SpecPath == InitPath /\ [][Next]_vars

(* SpecAgain: the caller calls detect_all_spaces again after each list, on  *)
(* the documents of Spec whose pages name the arrays [3 4] and [4 2].       *)

AgainDocs ==
    {d \in LinkDocs : d.objs[1] = ArrayObj(<<3, 4>>) /\ d.objs[2] = ArrayObj(<<4, 2>>)}

InitAgain == doc \in AgainDocs /\ InitControl /\ again = TRUE

SpecAgain == InitAgain /\ [][Next]_vars

-----------------------------------------------------------------------------
(* SpecStyle: one object is a Space with the fixture path whose colour and  *)
(* opacity fields, or whose title, vary, or an object that cannot be read;  *)
(* the other object, before or behind it, is the fixture; one upright page. *)

MaxChannels == 3

\* words of a /C array or behind /CA: numbers, digits-and-dots that are no
\* number, and a word with a character outside [\d.]
StyleWords == {"0", "1", "0.5", "2", "1..2", "x"}

StyleColors ==
    UNION {[1..n -> StyleWords] : n \in 0..MaxChannels} \cup {<<"1", "0", "0.5", "2">>}

\* texts between the delimiters of a literal string; parentheses inside are
\* balanced or escaped, as the PDF syntax has them
StyleTitles == {"Room A", "", "Room (A)", "Room \\(A\\)"}

StyleObjs ==
    {[FixtureObj EXCEPT !.hasC = TRUE, !.color = c] : c \in StyleColors}
    \cup {FixtureObj}

OpacityObjs(o) ==
    {[o EXCEPT !.hasCA = TRUE, !.opacity = w] : w \in StyleWords} \cup {o}

TitleObjs(o) ==
    {[o EXCEPT !.hasTitle = TRUE, !.title = s] : s \in StyleTitles} \cup {o}

StyleDocs ==
    {[pages |-> <<Page(0, 100, TRUE, FALSE, 0)>>, objs |-> os] :
        os \in UNION {{<<o, FixtureObj>>, <<FixtureObj, o>>} :
                    o \in UNION {OpacityObjs(a) : a \in StyleObjs}
                         \cup TitleObjs(FixtureObj) \cup {BrokenObj}}}

InitStyle == doc \in StyleDocs /\ InitControl /\ again = FALSE

SpecStyle == InitStyle /\ [][Next]_vars

-----------------------------------------------------------------------------
(* space_api_server.py: detect_spaces, detect_spaces_from_path, clear_cache. *)
(* The server answers each request on a thread of its own; a step of a       *)
(* thread is one access to the file system or to spaces_cache.  File sizes   *)
(* are in megabytes.  A response is [code, body]; error texts are left out.  *)

Threads == {1, 2}
MaxRequests == 3

MAX_FILE_SIZE == 50
ALLOWED_EXTENSIONS == {"pdf"}

UprightPage == Page(0, 100, TRUE, FALSE, 0)

\* the document fitz.open finds in a file of the given bytes; fitz.open raises
\* on bytes outside the domain
ContentDoc ==
    ("a" :> [pages |-> <<UprightPage>>, objs |-> <<FixtureObj>>]) @@
    ("b" :> [pages |-> <<UprightPage>>, objs |-> <<StyledObj, FixtureObj>>]) @@
    ("big" :> [pages |-> <<UprightPage, UprightPage>>, objs |-> <<FixtureObj>>]) @@
    ("torn" :> [pages |-> <<Page(0, 100, FALSE, FALSE, 0)>>, objs |-> <<FixtureObj>>])

\* os.path.getsize of a file of the given bytes
ContentSize == ("a" :> 1) @@ ("b" :> 1) @@ ("big" :> 51) @@ ("torn" :> 1) @@ ("junk" :> 1)

Contents == DOMAIN ContentSize

\* get_file_hash: SHA-256 of the bytes, different for different bytes
get_file_hash(bytes) == "sha256 of " \o bytes

FileHashes == {get_file_hash(c) : c \in Contents}

RECURSIVE LastDot(_, _)
\* the position of the last "." of s at or before k, 0 when there is none
LastDot(s, k) ==
    IF k = 0 THEN 0
    ELSE IF SubSeq(s, k, k) = "." THEN k
    ELSE LastDot(s, k - 1)

\* str.lower on the extensions the inputs use
Lower == ("pdf" :> "pdf") @@ ("PDF" :> "pdf") @@ ("txt" :> "txt")

\* '.' in filename and filename.rsplit('.', 1)[1].lower() in ALLOWED_EXTENSIONS
allowed_file(filename) ==
    LET dot == LastDot(filename, Len(filename))
    IN  /\ dot > 0
        /\ Lower[SubSeq(filename, dot + 1, Len(filename))] \in ALLOWED_EXTENSIONS

\* werkzeug's secure_filename on the file names the inputs use
secure_filename ==
    ("x.pdf" :> "x.pdf") @@ ("../x.pdf" :> "x.pdf") @@ ("y.PDF" :> "y.PDF") @@
    ("x.txt" :> "x.txt")

\* os.path.join(UPLOAD_FOLDER, filename)
TempPath(filename) == "/tmp/" \o filename

\* the multipart forms of detect_spaces: with or without a 'file' part
Uploads ==
    {[hasFile |-> TRUE, filename |-> "x.pdf", content |-> c] : c \in Contents}
    \cup {[hasFile |-> TRUE, filename |-> "../x.pdf", content |-> "b"],
          [hasFile |-> TRUE, filename |-> "y.PDF", content |-> "a"],
          [hasFile |-> TRUE, filename |-> "x.txt", content |-> "a"],
          [hasFile |-> TRUE, filename |-> "", content |-> "a"],
          [hasFile |-> FALSE, filename |-> "", content |-> "a"]}

\* the files detect_spaces_from_path can be pointed at
ServerFiles ==
    ("/in/a.pdf" :> "a") @@ ("/in/big.pdf" :> "big") @@ ("/in/notes.txt" :> "junk")

\* the JSON bodies of detect_spaces_from_path: with or without 'pdf_path'
PathRequests ==
    {[hasPath |-> TRUE, pdf_path |-> p] :
        p \in DOMAIN ServerFiles \cup {"/in/none.pdf"}}
    \cup {[hasPath |-> FALSE, pdf_path |-> ""]}

\* os.path.basename on the paths the inputs use
basename ==
    ("/in/a.pdf" :> "a.pdf") @@ ("/in/big.pdf" :> "big.pdf") @@
    ("/in/notes.txt" :> "notes.txt")

\* page_info of the detect endpoints: get_page_info with space_count and
\* space_titles added
PageInfo(d, sp, page_number) ==
    LET page_spaces == get_spaces_for_page(sp, page_number)
    IN  get_page_info(d, page_number) @@
        [space_count |-> Len(page_spaces),
         space_titles |-> [k \in 1..Len(page_spaces) |-> page_spaces[k].title]]

\* the with block raises: fitz.open fails, detect_all_spaces raises in its
\* transform pass, or get_page_info cannot load a page
ScanFails(bytes) ==
    \/ bytes \notin DOMAIN ContentDoc
    \/ DetectRaises(ContentDoc[bytes])
    \/ \E k \in 1..page_count(ContentDoc[bytes]) : ~ContentDoc[bytes].pages[k].loadable

\* the result dictionary built inside the with block, for the document d
ResultOf(filename, file_hash, d) ==
    LET sp == DetectAllSpaces(d)
    IN  [success |-> TRUE, filename |-> filename, file_hash |-> file_hash,
         page_count |-> page_count(d), total_spaces |-> Len(sp),
         spaces |-> [k \in 1..Len(sp) |-> to_dict(sp[k])],
         pages |-> [k \in 1..page_count(d) |-> PageInfo(d, sp, k - 1)]]

\* the result dictionary for the file of the given bytes
ScanResult(filename, file_hash, bytes) == ResultOf(filename, file_hash, ContentDoc[bytes])

\* jsonify({'error': ...}), 400 or 404
ErrorBody == [error |-> TRUE]
\* jsonify({'error': str(e), 'success': False}), 500
FailureBody == [error |-> TRUE, success |-> FALSE]

NoBody == <<>>

\* a thread between requests; code and body are its last response
Idle(code, body) ==
    [pc |-> "idle", kind |-> "none", filename |-> "", path |-> "", file_hash |-> "",
     result |-> NoBody, code |-> code, body |-> body]

\* a request on its way; path is temp_path or pdf_path
InFlight(kind, filename, path) ==
    [pc |-> "hash", kind |-> kind, filename |-> filename, path |-> path,
     file_hash |-> "", result |-> NoBody, code |-> 0, body |-> NoBody]

\* some thread other than th is inside a detect request
OthersInFlight(th) == \E o \in Threads \ {th} : reqs[o].pc # "idle"

\* os.remove(path) if os.path.exists(path)
RemoveFile(fs, path) == [q \in DOMAIN fs \ {path} |-> fs[q]]

\* file.save(path)
SaveFile(fs, path, bytes) == [q \in DOMAIN fs \cup {path} |-> IF q = path THEN bytes ELSE fs[q]]

\* mutant of Fail: the failure is answered as a success with an empty result
Fail_EmptySuccess(th) ==
    /\ reqs' = [reqs EXCEPT ![th] = Idle(200, [success |-> TRUE])]
    /\ files' = IF reqs[th].kind = "upload" THEN RemoveFile(files, reqs[th].path) ELSE files

\* the except branch: a temporary file is removed, the answer is 500
Fail(th) ==
    /\ reqs' = [reqs EXCEPT ![th] = Idle(500, FailureBody)]
    /\ files' = IF reqs[th].kind = "upload" THEN RemoveFile(files, reqs[th].path) ELSE files

\* detect_spaces up to the size check: the form is refused, or the upload is
\* saved under its secured name and measured
ReceiveUpload(th) ==
    /\ reqs[th].pc = "idle"
    /\ started < MaxRequests
    /\ started' = started + 1
    /\ \E u \in Uploads :
          IF ~u.hasFile \/ u.filename = "" \/ ~allowed_file(u.filename)
          THEN /\ reqs' = [reqs EXCEPT ![th] = Idle(400, ErrorBody)]
               /\ UNCHANGED <<files, serial>>
          ELSE LET filename == secure_filename[u.filename]
                   temp_path == TempPath(filename)
               IN  /\ files' = SaveFile(files, temp_path, u.content)
                   /\ reqs' = [reqs EXCEPT ![th] =
                                  [InFlight("upload", filename, temp_path) EXCEPT !.pc = "size"]]
                   /\ serial' = (serial /\ ~OthersInFlight(th))
    /\ UNCHANGED <<spaces_cache, scans, cleared>>
    /\ UNCHANGED <<coreVars, pdfVars>>

\* os.path.getsize(temp_path) > MAX_FILE_SIZE: the file is removed and the
\* form refused; getsize raises when the file is gone
CheckSize(th) ==
    /\ reqs[th].pc = "size"
    /\ IF reqs[th].path \notin DOMAIN files THEN Fail(th)
       ELSE IF ContentSize[files[reqs[th].path]] > MAX_FILE_SIZE
       THEN /\ files' = RemoveFile(files, reqs[th].path)
            /\ reqs' = [reqs EXCEPT ![th] = Idle(400, ErrorBody)]
       ELSE /\ reqs' = [reqs EXCEPT ![th].pc = "hash"]
            /\ UNCHANGED files
    /\ UNCHANGED <<spaces_cache, scans, started, serial, cleared>>
    /\ UNCHANGED <<coreVars, pdfVars>>

\* detect_spaces_from_path up to the existence check
ReceivePath(th) ==
    /\ reqs[th].pc = "idle"
    /\ started < MaxRequests
    /\ started' = started + 1
    /\ \E r \in PathRequests :
          IF ~r.hasPath
          THEN /\ reqs' = [reqs EXCEPT ![th] = Idle(400, ErrorBody)]
               /\ UNCHANGED serial
          ELSE IF r.pdf_path \notin DOMAIN files
          THEN /\ reqs' = [reqs EXCEPT ![th] = Idle(404, ErrorBody)]
               /\ UNCHANGED serial
          ELSE /\ reqs' = [reqs EXCEPT ![th] =
                              InFlight("path", basename[r.pdf_path], r.pdf_path)]
               /\ serial' = (serial /\ ~OthersInFlight(th))
    /\ UNCHANGED <<files, spaces_cache, scans, cleared>>
    /\ UNCHANGED <<coreVars, pdfVars>>

\* file_hash = get_file_hash(path); open raises when the file is gone
Hash(th) ==
    /\ reqs[th].pc = "hash"
    /\ IF reqs[th].path \notin DOMAIN files THEN Fail(th)
       ELSE /\ reqs' = [reqs EXCEPT ![th].pc = "check",
                                    ![th].file_hash = get_file_hash(files[reqs[th].path])]
            /\ UNCHANGED files
    /\ UNCHANGED <<spaces_cache, scans, started, serial, cleared>>
    /\ UNCHANGED <<coreVars, pdfVars>>

\* mutant of CheckCache: the cache is never found to hold the hash
CheckCache_Miss(th) ==
    /\ reqs[th].pc = "check"
    /\ reqs' = [reqs EXCEPT ![th].pc = "scan"]
    /\ UNCHANGED <<files, spaces_cache, scans, started, serial, cleared>>
    /\ UNCHANGED <<coreVars, pdfVars>>

\* if file_hash in spaces_cache: the stored result is the answer (the path
\* entry returns it at once, the upload entry goes on to remove its file)
CheckCache(th) ==
    /\ reqs[th].pc = "check"
    /\ IF reqs[th].file_hash \in DOMAIN spaces_cache
       THEN reqs' = [reqs EXCEPT ![th] =
                        IF reqs[th].kind = "upload"
                        THEN [@ EXCEPT !.pc = "cleanup",
                                       !.result = spaces_cache[reqs[th].file_hash]]
                        ELSE Idle(200, spaces_cache[reqs[th].file_hash])]
       ELSE reqs' = [reqs EXCEPT ![th].pc = "scan"]
    /\ UNCHANGED <<files, spaces_cache, scans, started, serial, cleared>>
    /\ UNCHANGED <<coreVars, pdfVars>>

\* with BlueBeamSpaceHandler(path) as handler: the file at path, as it is
\* now, is opened and scanned and the result dictionary built
Scan(th) ==
    /\ reqs[th].pc = "scan"
    /\ scans' = [scans EXCEPT ![reqs[th].file_hash] = @ + 1]
    /\ IF reqs[th].path \notin DOMAIN files \/ ScanFails(files[reqs[th].path])
       THEN Fail(th)
       ELSE /\ reqs' = [reqs EXCEPT ![th].pc = "store",
                                    ![th].result = ScanResult(reqs[th].filename,
                                                              reqs[th].file_hash,
                                                              files[reqs[th].path])]
            /\ UNCHANGED files
    /\ UNCHANGED <<spaces_cache, started, serial, cleared>>
    /\ UNCHANGED <<coreVars, pdfVars>>

\* spaces_cache[file_hash] = result (the path entry then returns the result)
Store(th) ==
    /\ reqs[th].pc = "store"
    /\ spaces_cache' =
          [h \in DOMAIN spaces_cache \cup {reqs[th].file_hash} |->
              IF h = reqs[th].file_hash THEN reqs[th].result ELSE spaces_cache[h]]
    /\ reqs' = [reqs EXCEPT ![th] =
                   IF reqs[th].kind = "upload" THEN [@ EXCEPT !.pc = "cleanup"]
                   ELSE Idle(200, reqs[th].result)]
    /\ UNCHANGED <<files, scans, started, serial, cleared>>
    /\ UNCHANGED <<coreVars, pdfVars>>

\* detect_spaces: the temporary file is removed if it is there, the result
\* returned
Cleanup(th) ==
    /\ reqs[th].pc = "cleanup"
    /\ files' = RemoveFile(files, reqs[th].path)
    /\ reqs' = [reqs EXCEPT ![th] = Idle(200, reqs[th].result)]
    /\ UNCHANGED <<spaces_cache, scans, started, serial, cleared>>
    /\ UNCHANGED <<coreVars, pdfVars>>

\* clear_cache: spaces_cache.clear()
ClearCache ==
    /\ started < MaxRequests
    /\ started' = started + 1
    /\ spaces_cache' = <<>>
    /\ cleared' = TRUE
    /\ UNCHANGED <<files, reqs, scans, serial>>
    /\ UNCHANGED <<coreVars, pdfVars>>

NextApi ==
    \/ \E th \in Threads :
          \/ ReceiveUpload(th) \/ CheckSize(th) \/ ReceivePath(th) \/ Hash(th)
          \/ CheckCache(th) \/ Scan(th) \/ Store(th) \/ Cleanup(th)
    \/ ClearCache

\* the server has started: no request yet, an empty cache, no document open
InitApi ==
    /\ doc = [pages |-> <<>>, objs |-> <<>>]
    /\ CoreControl
    /\ again = FALSE
    /\ PdfIdle
    /\ files = ServerFiles
    /\ spaces_cache = <<>>
    /\ reqs = [th \in Threads |-> Idle(0, NoBody)]
    /\ scans = [h \in FileHashes |-> 0]
    /\ started = 0
    /\ serial = TRUE
    /\ cleared = FALSE

SpecApi == InitApi /\ [][NextApi]_vars

-----------------------------------------------------------------------------
(* create_consolidated_equipment_pdfs of src/space_api_server.py.  The      *)
(* export folder holds project_data.json ("absent", "malformed" or "json"   *)
(* with its equipment and originalPdfPath), the original PDF, and items: a  *)
(* name is a plain file or an equipment directory with its file names.  A   *)
(* saved PDF is the list of its pages.                                      *)

\* extraction_type_priority
extraction_type_priority ==
    <<"schedule", "drawing", "detail", "table", "specification", "other">>

\* str.lower on the names the inputs use
LowerName ==
    ("schedule" :> "schedule") @@ ("drawing" :> "drawing") @@ ("DETAIL" :> "detail") @@
    ("weird" :> "weird") @@ ("other" :> "other") @@
    ("a.png" :> "a.png") @@ ("B.PNG" :> "b.png") @@ ("notes.txt" :> "notes.txt") @@
    ("png" :> "png")

\* get_extraction_type_priority: the index in the list (0-based), its length
\* for a type that is not in it
get_extraction_type_priority(extraction_type) ==
    LET k == Find(extraction_type_priority, LowerName[extraction_type], 1)
    IN  IF k = 0 THEN Len(extraction_type_priority) ELSE k - 1

\* str.endswith
EndsWith(s, suffix) ==
    Len(s) >= Len(suffix) /\ SubSeq(s, Len(s) - Len(suffix) + 1, Len(s)) = suffix

\* file.lower().endswith('.png')
IsPng(file) == EndsWith(LowerName[file], ".png")

\* the entry of extraction_metadata for one extraction of project_data.json
MetadataOf(extraction) ==
    [id |-> extraction.id,
     type |-> extraction.extractionType,
     is_full_page |-> extraction.isFullPage,
     page_number |-> IF extraction.isFullPage THEN extraction.page ELSE 0,
     image_file |-> IF extraction.isFullPage THEN "" ELSE extraction.image]

\* the sort key (priority of the type, id) of a is less than that of b
KeyLess(a, b) ==
    LET pa == get_extraction_type_priority(a.type)
        pb == get_extraction_type_priority(b.type)
    IN  pa < pb \/ (pa = pb /\ a.id < b.id)

RECURSIVE InsertSorted(_, _)
\* x put into the sorted list behind every entry whose key is not greater
InsertSorted(sorted, x) ==
    IF sorted = <<>> THEN <<x>>
    ELSE IF KeyLess(x, sorted[1]) THEN <<x>> \o sorted
    ELSE <<sorted[1]>> \o InsertSorted(Tail(sorted), x)

RECURSIVE SortExtractions(_)
\* extractions_list.sort(key=(priority, id)): a stable sort
SortExtractions(list) ==
    IF list = <<>> THEN <<>>
    ELSE InsertSorted(SortExtractions(SubSeq(list, 1, Len(list) - 1)), list[Len(list)])

\* the page one extraction adds to the consolidated PDF, <<>> when it is
\* skipped: a full page needs the original PDF and a page number inside it,
\* an image its file in the equipment directory
ExtractionPages(folder, dir_files, original, extraction) ==
    IF extraction.is_full_page
    THEN IF original = "" \/ folder.original = 0 THEN <<>>
         ELSE IF extraction.page_number - 1 < 0
                 \/ extraction.page_number - 1 >= folder.original THEN <<>>
         ELSE <<[page |-> extraction.page_number]>>
    ELSE IF extraction.image_file = "" THEN <<>>
         ELSE IF PathName(extraction.image_file) \notin dir_files THEN <<>>
         ELSE <<[image |-> PathName(extraction.image_file)]>>

RECURSIVE PagesOfList(_, _, _, _)
\* the pages of the consolidated PDF of a sorted list of extractions
PagesOfList(folder, dir_files, original, list) ==
    IF list = <<>> THEN <<>>
    ELSE ExtractionPages(folder, dir_files, original, list[1])
         \o PagesOfList(folder, dir_files, original, Tail(list))

\* doc.save: a document without pages cannot be saved (the except branch of
\* the PDF prints the error and the PDF does not count)
Saved(pdfs, name, pages) ==
    IF pages = <<>> THEN pdfs
    ELSE [n \in DOMAIN pdfs \cup {name} |-> IF n = name THEN pages ELSE pdfs[n]]

\* the orders os.listdir may give a set of names in
Orders(names) ==
    {order \in [1..Cardinality(names) -> names] :
        \A i, j \in 1..Cardinality(names) : order[i] = order[j] => i = j}

\* lines 156-187: project_data.json, if there, is loaded and the metadata
\* built; json.load raises on a malformed file
LoadMetadata ==
    /\ pdf_pc = "load"
    /\ IF export_folder.project.state = "absent"
       THEN /\ pdf_pc' = "original"
            /\ UNCHANGED <<project_data, extraction_metadata>>
       ELSE IF export_folder.project.state = "malformed"
       THEN /\ pdf_pc' = "done"
            /\ UNCHANGED <<project_data, extraction_metadata>>
       ELSE /\ project_data' = [bound |-> TRUE,
                                equipment |-> export_folder.project.equipment,
                                originalPdfPath |-> export_folder.project.originalPdfPath]
            /\ extraction_metadata' =
                  [k \in 1..Len(export_folder.project.equipment) |->
                      [equipment_type |-> export_folder.project.equipment[k].equipment_type,
                       extractions_list |->
                          [i \in 1..Len(export_folder.project.equipment[k].extractions) |->
                              MetadataOf(export_folder.project.equipment[k].extractions[i])]]]
            /\ pdf_pc' = "original"
    /\ UNCHANGED <<export_folder, original_pdf_path, remaining, pdfs_created, consolidated>>
    /\ UNCHANGED <<coreVars, apiVars>>

\* lines 190-195: project_data is read (an UnboundLocalError when nothing was
\* loaded; the outer except returns pdfs_created), then project_data.json is
\* looked for again to choose the loop
OriginalPdfPath ==
    /\ pdf_pc = "original"
    /\ IF ~project_data.bound
       THEN /\ pdf_pc' = "done"
            /\ UNCHANGED <<original_pdf_path, remaining>>
       ELSE /\ original_pdf_path' = project_data.originalPdfPath
            /\ IF export_folder.project.state # "absent"
               THEN /\ remaining' = 1..Len(extraction_metadata)
                    /\ pdf_pc' = IF extraction_metadata = <<>> THEN "done" ELSE "metadata"
               ELSE /\ remaining' = DOMAIN export_folder.items
                    /\ pdf_pc' = IF DOMAIN export_folder.items = {} THEN "done" ELSE "fallback"
    /\ UNCHANGED <<export_folder, project_data, extraction_metadata, pdfs_created,
                   consolidated>>
    /\ UNCHANGED <<coreVars, apiVars>>

\* one iteration of `for equipment_type, extractions_list in
\* extraction_metadata.items()` (lines 197-356)
ConsolidateType ==
    /\ pdf_pc = "metadata"
    /\ LET k == CHOOSE i \in remaining : \A j \in remaining : i <= j
           equipment_type == extraction_metadata[k].equipment_type
           extractions_list == SortExtractions(extraction_metadata[k].extractions_list)
           is_dir == /\ equipment_type \in DOMAIN export_folder.items
                     /\ export_folder.items[equipment_type].isDir
           pages == IF is_dir
                    THEN PagesOfList(export_folder, export_folder.items[equipment_type].files,
                                     original_pdf_path, extractions_list)
                    ELSE <<>>
       IN  /\ consolidated' = Saved(consolidated, equipment_type, pages)
           /\ pdfs_created' = IF pages = <<>> THEN pdfs_created ELSE pdfs_created + 1
           /\ remaining' = remaining \ {k}
           /\ pdf_pc' = IF remaining \ {k} = {} THEN "done" ELSE "metadata"
    /\ UNCHANGED <<export_folder, project_data, extraction_metadata, original_pdf_path>>
    /\ UNCHANGED <<coreVars, apiVars>>

\* one iteration of `for item in os.listdir(export_folder_path)` (lines
\* 361-459): a directory with PNG files gets the PDF of these files
ConsolidateItem ==
    /\ pdf_pc = "fallback"
    /\ \E item \in remaining :
          LET png_files == IF export_folder.items[item].isDir
                           THEN {file \in export_folder.items[item].files : IsPng(file)}
                           ELSE {}
          IN  /\ \E order \in Orders(png_files) :
                    consolidated' =
                        Saved(consolidated, item,
                              [i \in 1..Len(order) |-> [image |-> order[i]]])
              /\ pdfs_created' = IF png_files = {} THEN pdfs_created ELSE pdfs_created + 1
              /\ remaining' = remaining \ {item}
              /\ pdf_pc' = IF remaining \ {item} = {} THEN "done" ELSE "fallback"
    /\ UNCHANGED <<export_folder, project_data, extraction_metadata, original_pdf_path>>
    /\ UNCHANGED <<coreVars, apiVars>>

\* the user, or another process, removes project_data.json while the call is
\* between its two looks at the file (lines 160 and 195)
RemoveProjectData ==
    /\ pdf_pc = "original"
    /\ export_folder.project.state # "absent"
    /\ export_folder' = [export_folder EXCEPT !.project = [state |-> "absent"]]
    /\ UNCHANGED <<pdf_pc, project_data, extraction_metadata, original_pdf_path,
                   remaining, pdfs_created, consolidated>>
    /\ UNCHANGED <<coreVars, apiVars>>

NextPdf ==
    LoadMetadata \/ OriginalPdfPath \/ ConsolidateType \/ ConsolidateItem
        \/ RemoveProjectData

\* the extractions project_data.json lists in the explored folders
Extraction(id, extractionType, isFullPage, page, image) ==
    [id |-> id, extractionType |-> extractionType, isFullPage |-> isFullPage,
     page |-> page, image |-> image]

ImageA == Extraction(2, "DETAIL", FALSE, 1, "images/a.png")
ImageGone == Extraction(1, "schedule", FALSE, 1, "gone.png")
ImageNone == Extraction(3, "weird", FALSE, 1, "")
FullPage == Extraction(1, "drawing", TRUE, 1, "")
FullPageBeyond == Extraction(4, "other", TRUE, 2, "")

Equipment(equipment_type, extractions) ==
    [equipment_type |-> equipment_type, extractions |-> extractions]

ProjectFiles ==
    {[state |-> "absent"], [state |-> "malformed"]}
    \cup {[state |-> "json", equipment |-> eq, originalPdfPath |-> orig] :
            eq \in {<<>>,
                    <<Equipment("AHU", <<ImageA>>)>>,
                    <<Equipment("AHU", <<ImageA, FullPage>>),
                      Equipment("Pump", <<ImageGone>>)>>,
                    <<Equipment("Pump", <<FullPageBeyond, ImageNone>>),
                      Equipment("AHU", <<>>)>>},
            orig \in {"", "/in/plan.pdf"}}

\* a name in the export folder: a plain file, or a directory and its files
FolderItems ==
    {[isDir |-> FALSE, files |-> {}]}
    \cup {[isDir |-> TRUE, files |-> fs] :
            fs \in {{}, {"a.png"}, {"B.PNG", "notes.txt"}, {"notes.txt", "png"},
                    {"a.png", "B.PNG"}}}

ExportFolders ==
    {[project |-> pr, original |-> n, items |-> it] :
        pr \in ProjectFiles, n \in {0, 1},
        it \in UNION {[names -> FolderItems] : names \in SUBSET {"AHU", "Pump"}}}

\* create_consolidated_equipment_pdfs was called on an export folder
InitPdf ==
    /\ doc = [pages |-> <<>>, objs |-> <<>>]
    /\ CoreControl
    /\ again = FALSE
    /\ ApiIdle
    /\ export_folder \in ExportFolders
    /\ pdf_pc = "load"
    /\ project_data = [bound |-> FALSE]
    /\ extraction_metadata = <<>>
    /\ original_pdf_path = ""
    /\ remaining = {}
    /\ pdfs_created = 0
    /\ consolidated = <<>>

SpecPdf == InitPdf /\ [][NextPdf]_vars

-----------------------------------------------------------------------------
(* Properties *)

\* detect_all_spaces has returned its list
Returned == result = "list"

\* the markers the call returned
ReturnedSpaces == {self_spaces[k] : k \in 1..Len(self_spaces)}

\* the marker's page_number is a page of the document
OnPage(m) == m.page_number >= 0 /\ m.page_number < page_count(doc)

PageOf(m) == doc.pages[m.page_number + 1]

BoundsRect(m) == <<m.bounds.min_x, m.bounds.min_y, m.bounds.max_x, m.bounds.max_y>>

\* C1: every returned marker on a page of rotation 0 has the display rectangle
\* (min_x, H - max_y, max_x, H - min_y), H the height of the page's media box
C1_YFlip ==
    Returned =>
        \A m \in ReturnedSpaces :
            (OnPage(m) /\ PageOf(m).rotation = 0) =>
                m.pymupdf_rect = <<m.bounds.min_x, PageOf(m).height - m.bounds.max_y,
                                   m.bounds.max_x, PageOf(m).height - m.bounds.min_y>>

\* bounds (10,10,30,20) on an unrotated page of height 100 came out as (10,80,30,90)
C1_Witness ==
    /\ Returned
    /\ \E m \in ReturnedSpaces :
          /\ OnPage(m) /\ PageOf(m).rotation = 0 /\ PageOf(m).height = 100
          /\ BoundsRect(m) = <<10, 10, 30, 20>>
          /\ m.pymupdf_rect = <<10, 80, 30, 90>>

\* C2: every returned marker on a page whose rotation is not 0 has its bounds
\* (min_x, min_y, max_x, max_y) as display rectangle, unchanged
C2_Passthrough ==
    Returned =>
        \A m \in ReturnedSpaces :
            (OnPage(m) /\ PageOf(m).rotation # 0) => m.pymupdf_rect = BoundsRect(m)

\* a marker with two distinct y bounds on a page rotated by 180 kept its bounds
C2_Witness ==
    /\ Returned
    /\ \E m \in ReturnedSpaces :
          /\ OnPage(m) /\ PageOf(m).rotation = 180
          /\ m.bounds.min_y < m.bounds.max_y
          /\ m.pymupdf_rect = BoundsRect(m)

\* the tag the code sets for a rotation
TagOfRotation(rotation) ==
    IF rotation = 0 THEN "y_flip_transformation"
    ELSE IF rotation = 90 THEN "passthrough_90_rotation"
    ELSE "rotation_normalization"

\* the tag the specification names for a rotation
SpecTagOfRotation(rotation) ==
    IF rotation = 0 THEN "y_flip"
    ELSE IF rotation = 90 THEN "passthrough_rotated"
    ELSE "rotation_normalized"

Untransformed(m) ==
    [m EXCEPT !.pymupdf_rect = NoRect, !.transformation_method = "default"]

\* C4: after the call returns, a marker has a display rectangle exactly when its
\* page_number is below the page count; a marker out of range keeps the polygon,
\* bounds and area the object pass gave it
C4_RectIffValidPage ==
    Returned =>
        \A m \in ReturnedSpaces :
            /\ (m.pymupdf_rect # NoRect) <=> (m.page_number < page_count(doc))
            /\ Untransformed(m) \in
                  {ParseSpaceObject(m.xref, doc.objs[m.xref], page_space_map)[k] :
                      k \in 1..Len(ParseSpaceObject(m.xref, doc.objs[m.xref], page_space_map))}
            /\ m.coordinates # <<>>

\* a document without pages returned a marker on default page 0 with no rectangle
C4_Witness ==
    /\ Returned
    /\ page_count(doc) = 0
    /\ \E m \in ReturnedSpaces :
          /\ m.page_number = 0
          /\ m.pymupdf_rect = NoRect
          /\ BoundsRect(m) = <<10, 10, 30, 20>>
          /\ m.area = 200

XsOf(m) == {m.coordinates[k][1] : k \in 1..Len(m.coordinates)}
YsOf(m) == {m.coordinates[k][2] : k \in 1..Len(m.coordinates)}

\* C5: every returned marker has min_x <= max_x and min_y <= max_y, its bounds
\* are the extreme x and y of its polygon vertices, and its area is
\* (max_x - min_x) * (max_y - min_y) >= 0
C5_BoundsAndArea ==
    Returned =>
        \A m \in ReturnedSpaces :
            /\ m.bounds.min_x <= m.bounds.max_x
            /\ m.bounds.min_y <= m.bounds.max_y
            /\ m.bounds.min_x \in XsOf(m) /\ \A x \in XsOf(m) : m.bounds.min_x <= x
            /\ m.bounds.max_x \in XsOf(m) /\ \A x \in XsOf(m) : x <= m.bounds.max_x
            /\ m.bounds.min_y \in YsOf(m) /\ \A y \in YsOf(m) : m.bounds.min_y <= y
            /\ m.bounds.max_y \in YsOf(m) /\ \A y \in YsOf(m) : y <= m.bounds.max_y
            /\ m.area = (m.bounds.max_x - m.bounds.min_x) * (m.bounds.max_y - m.bounds.min_y)
            /\ m.area >= 0

\* a returned marker whose first vertex holds the largest x and the smallest y
C5_Witness ==
    /\ Returned
    /\ \E m \in ReturnedSpaces :
          /\ Len(m.coordinates) = 2
          /\ m.coordinates[1][1] > m.coordinates[2][1]
          /\ m.coordinates[1][2] < m.coordinates[2][2]
          /\ m.area > 0

\* the text is "[" then n groups "[" number number "]" then "]"
IsPairArray(text) ==
    /\ Len(text) >= 2
    /\ (Len(text) - 2) % 4 = 0
    /\ text[1] = "[" /\ text[Len(text)] = "]"
    /\ \A k \in 1..((Len(text) - 2) \div 4) :
          /\ text[4 * k - 2] = "[" /\ text[4 * k + 1] = "]"
          /\ IsNumeral(text[4 * k - 1]) /\ IsNumeral(text[4 * k])

PairCount(text) == (Len(text) - 2) \div 4

\* the points of a pair array, read off by position
DecodePairs(text) ==
    [k \in 1..PairCount(text) |-> <<NumeralValue[text[4 * k - 1]], NumeralValue[text[4 * k]]>>]

\* the objects holding "/Type /Space"
SpaceXrefs == {x \in 1..Len(doc.objs) : doc.objs[x].kind = "space"}

MarkersOf(x) == {m \in ReturnedSpaces : m.xref = x}

FixturePoints == << <<10, 10>>, <<10, 20>>, <<30, 20>>, <<30, 10>> >>

\* C6: a Space object whose path value is an array of n >= 1 groups of two numbers
\* yields the marker whose polygon is those n points in text order; the four
\* points (10,10),(10,20),(30,20),(30,10) give bounds (10,10,30,20) and area 200
C6_PathRoundTrip ==
    Returned =>
        \A x \in SpaceXrefs :
            LET o == doc.objs[x] IN
            (o.hasPath /\ IsPairArray(o.tail) /\ PairCount(o.tail) >= 1) =>
                /\ \E m \in MarkersOf(x) : m.coordinates = DecodePairs(o.tail)
                /\ \A m \in MarkersOf(x) :
                      /\ m.coordinates = DecodePairs(o.tail)
                      /\ m.coordinates = FixturePoints =>
                            /\ m.bounds = [min_x |-> 10, min_y |-> 10,
                                           max_x |-> 30, max_y |-> 20]
                            /\ m.area = 200

\* the fixture path and a path of two different points both came back in order
C6_Witness ==
    /\ Returned
    /\ \E m \in MarkersOf(2) : m.coordinates = FixturePoints /\ m.area = 200
    /\ doc.objs[1].tail = <<"[", "[", "20", "10", "]", "[", "10", "20", "]", "]">>
    /\ \E m \in MarkersOf(1) : m.coordinates = << <<20, 10>>, <<10, 20>> >>

\* path values without a "[" anywhere behind the path key
NoArrayTails == { <<>>, <<"7", "0", "R">> }

\* path arrays none of whose groups holds two leading numbers
ZeroVertexTails ==
    { <<"[", "]">>,
      <<"[", "10", "20", "]">>,
      <<"[", "[", "10", "]", "]">>,
      <<"[", "[", "]", "]">>,
      <<"[", "[", "x", "10", "]", "]">>,
      <<"7", "0", "R", "[", "0", "0", "1", "]">> }

\* an exception left detect_all_spaces only where page 0, the default page of
\* the markers, does not load
OnlyPageLoadRaises ==
    result = "exception" => (page_count(doc) > 0 /\ ~doc.pages[1].loadable)

\* C7: every returned marker has a polygon of at least one vertex; a Space object
\* with no path key, no path array or no vertex in its path array is not in the
\* returned list, and discarding it raises nothing
C7_NoEmptyPolygon ==
    /\ OnlyPageLoadRaises
    /\ Returned =>
          /\ \A m \in ReturnedSpaces : Len(m.coordinates) >= 1
          /\ \A x \in SpaceXrefs :
                LET o == doc.objs[x] IN
                (~o.hasPath \/ o.tail \in NoArrayTails \/ o.tail \in ZeroVertexTails)
                    => MarkersOf(x) = {}

\* the call returned the fixture marker alone: object 1, whose path array holds
\* one group of one number, was discarded
C7_Witness ==
    /\ Returned
    /\ doc.objs[1].tail = <<"[", "[", "10", "]", "]">>
    /\ MarkersOf(1) = {}
    /\ MarkersOf(2) # {}

\* the number of "[" less the number of "]" in a text
RECURSIVE Depth(_)
Depth(text) ==
    IF text = <<>> THEN 0
    ELSE Depth(Tail(text)) + (IF text[1] = "[" THEN 1 ELSE IF text[1] = "]" THEN -1 ELSE 0)

\* the part of a text from its first "[" to the first "]" that balances it;
\* <<>> when there is no "[" or it is never balanced
ClosedArray(text) ==
    LET opens == {i \in 1..Len(text) : text[i] = "["}
    IN  IF opens = {} THEN <<>>
        ELSE LET start == CHOOSE i \in opens : \A j \in opens : i <= j
                 ends == {i \in start..Len(text) : Depth(SubSeq(text, start, i)) = 0}
             IN  IF ends = {} THEN <<>>
                 ELSE SubSeq(text, start, CHOOSE i \in ends : \A j \in ends : i <= j)

\* object 1 is a Space whose path text has one bracket too many or too few
UnbalancedCase ==
    /\ doc.objs[1].kind = "space" /\ doc.objs[1].hasPath
    /\ doc.objs[1].tail \in UnbalancedTails

\* the marker of the fixture object 2 is the one it always yields
FixtureAsUsual ==
    /\ Cardinality(MarkersOf(2)) = 1
    /\ \A m \in MarkersOf(2) :
          /\ m.coordinates = FixturePoints
          /\ BoundsRect(m) = <<10, 10, 30, 20>>
          /\ m.area = 200
          /\ m.title = "Space_2"
          /\ m.page_number = 0

\* C8 (as stated): a Space object whose path array text has unbalanced brackets
\* yields no marker, the scan does not fail and the other objects are processed
C8_UnbalancedDiscarded ==
    UnbalancedCase =>
        /\ OnlyPageLoadRaises
        /\ Returned => (MarkersOf(1) = {} /\ FixtureAsUsual)

\* C8 (amended): with unbalanced brackets in the path text the scan does not fail
\* and the other objects are processed as usual; the object yields no marker when
\* the first "[" of the path value is never balanced before the text ends;
\* otherwise the text up to the first balancing "]" is the path array, whatever
\* brackets follow, and the object yields the marker of that array
C8_UnbalancedTolerated ==
    UnbalancedCase =>
        /\ OnlyPageLoadRaises
        /\ Returned =>
              LET text == doc.objs[1].tail IN
              /\ FixtureAsUsual
              /\ ClosedArray(text) = <<>> => MarkersOf(1) = {}
              /\ (IsPairArray(ClosedArray(text)) /\ PairCount(ClosedArray(text)) >= 1) =>
                    /\ MarkersOf(1) # {}
                    /\ \A m \in MarkersOf(1) : m.coordinates = DecodePairs(ClosedArray(text))

\* a path array left open was discarded and the fixture marker returned
C8_Witness ==
    /\ Returned
    /\ doc.objs[1].tail = <<"[", "[", "10", "20", "]", "[", "20", "10", "]">>
    /\ MarkersOf(1) = {}
    /\ FixtureAsUsual

Pages0 == 0..(page_count(doc) - 1)

\* the annotation array of page p (0-based) references object r
References(p, r) ==
    LET page == doc.pages[p + 1] IN
    /\ page.hasBSI
    /\ ValidXref(doc, page.bsi_ref)
    /\ \E k \in 1..Len(doc.objs[page.bsi_ref].refs) : doc.objs[page.bsi_ref].refs[k] = r

\* page p loads and its annotation array can be fetched
AssociationSucceeds(p) ==
    LET page == doc.pages[p + 1] IN
    /\ page.loadable
    /\ page.hasBSI => (ValidXref(doc, page.bsi_ref) /\ doc.objs[page.bsi_ref].kind # "broken")

\* the pages whose association succeeded and whose array references r
AssociatingPages(r) == {p \in Pages0 : AssociationSucceeds(p) /\ References(p, r)}

\* C9 (as stated): if the annotation array of page p references object r (and
\* the page and its array were read without error), the marker of r (when r
\* parses) carries page_number = p
C9_EveryReferencingPage ==
    Returned =>
        \A r \in 1..Len(doc.objs) : \A p \in AssociatingPages(r) :
            \A m \in MarkersOf(r) : m.page_number = p

\* C9 (amended): if the annotation array of page p references object r and the
\* association of p succeeded, the marker of r (when r parses) carries
\* page_number = p unless a later such page references r too: it carries the
\* highest such page
C9_LastReferencingPage ==
    Returned =>
        \A r \in 1..Len(doc.objs) :
            AssociatingPages(r) # {} =>
                \A m \in MarkersOf(r) :
                    /\ m.page_number \in AssociatingPages(r)
                    /\ \A p \in AssociatingPages(r) : p <= m.page_number

\* page 1 alone references object 4 and its marker carries page 1, while the
\* marker of object 3, referenced by pages 0 and 1, carries page 1 as well
C9_Witness ==
    /\ Returned
    /\ AssociatingPages(4) = {1}
    /\ AssociatingPages(3) = {0, 1}
    /\ \E m \in MarkersOf(4) : m.page_number = 1
    /\ \E m \in MarkersOf(3) : m.page_number = 1

\* the colour and opacity words of an object, if any, are numbers
StyleParses(o) ==
    /\ o.hasC => \A k \in 1..Len(o.color) : o.color[k] \in DOMAIN ChannelValue
    /\ o.hasCA => o.opacity \in DOMAIN ChannelValue

\* a Space object whose path is an array of n >= 1 pairs of numbers
WellFormedSpace(o) ==
    /\ o.kind = "space" /\ o.hasPath
    /\ IsPairArray(o.tail) /\ PairCount(o.tail) >= 1
    /\ StyleParses(o)

\* C10: a well-formed Space object yields a marker whatever the association pass
\* did; when no page's array references it, or the pages that do failed their
\* association, the marker has page_number 0
C10_OrphanOnPageZero ==
    Returned =>
        \A x \in SpaceXrefs :
            WellFormedSpace(doc.objs[x]) =>
                /\ Cardinality(MarkersOf(x)) = 1
                /\ AssociatingPages(x) = {} => \A m \in MarkersOf(x) : m.page_number = 0

\* object 3 is referenced by no page, object 4 only by page 1, which failed to
\* load; both markers were returned with page_number 0
C10_Witness ==
    /\ Returned
    /\ page_count(doc) = 2
    /\ \A p \in Pages0 : ~References(p, 3)
    /\ References(1, 4) /\ ~AssociationSucceeds(1) /\ ~References(0, 4)
    /\ \E m \in MarkersOf(3) : m.page_number = 0
    /\ \E m \in MarkersOf(4) : m.page_number = 0


-----------------------------------------------------------------------------
(* Colour, opacity and title (SpecStyle) *)

\* the value of a colour or opacity field is absent or made of numbers only
ColorIsNumbers(o) == o.hasC => \A k \in 1..Len(o.color) : o.color[k] \in DOMAIN ChannelValue
OpacityIsNumber(o) == o.hasCA => o.opacity \in DOMAIN ChannelValue

\* a Space object whose path is an array of n >= 1 pairs of numbers
HasPolygon(o) ==
    o.kind = "space" /\ o.hasPath /\ IsPairArray(o.tail) /\ PairCount(o.tail) >= 1

MalformedColor(o) ==
    /\ o.hasC
    /\ \/ Len(o.color) < 3
       \/ \E k \in 1..Len(o.color) : o.color[k] \notin DOMAIN ChannelValue

\* C12 (as stated): a Space object with a non-empty polygon and a malformed
\* colour field still yields a marker, of colour (0, 0, 1)
C12_MalformedColorDefaults ==
    Returned =>
        \A x \in SpaceXrefs :
            LET o == doc.objs[x] IN
            (HasPolygon(o) /\ MalformedColor(o) /\ OpacityIsNumber(o)) =>
                /\ Cardinality(MarkersOf(x)) = 1
                /\ \A m \in MarkersOf(x) : m.color = <<0, 0, 100>>

\* C13 (as stated): every returned marker has three colour channels, each in
\* [0, 1], and an opacity in [0, 1] (values in hundredths)
C13_UnitRange ==
    Returned =>
        \A m \in ReturnedSpaces :
            /\ Len(m.color) = 3
            /\ \A k \in 1..Len(m.color) : m.color[k] \in 0..100
            /\ m.opacity \in 0..100

\* C14 (as stated): the title of a marker is the string behind the title key
\* of its object, and "Space_<xref>" when the object has no title
C14_TitleIsDelimitedString ==
    Returned =>
        \A x \in SpaceXrefs :
            LET o == doc.objs[x] IN
            \A m \in MarkersOf(x) :
                m.title = IF o.hasTitle THEN o.title ELSE "Space_" \o ToString(x)


\* fetching object x or extracting its fields raises inside the object pass
ObjectFails(d, x) ==
    \/ d.objs[x].kind = "broken"
    \/ /\ HasPolygon(d.objs[x])
       /\ ColorRaises(d.objs[x]) \/ OpacityRaises(d.objs[x])

\* the document with object x replaced by an object that is no Space
Without(d, x) == [d EXCEPT !.objs[x] = Obj("other", <<>>, FALSE, <<>>)]

\* C15: when fetching an object or extracting its fields raises, the call
\* still returns, and the list it returns is the one the scan of the document
\* without that object gives
C15_FailingObjectSkipped ==
    /\ result # "exception"
    /\ Returned =>
          \A x \in 1..Len(doc.objs) :
              ObjectFails(doc, x) => self_spaces = DetectAllSpaces(Without(doc, x))

\* an unreadable object, or one whose colour raised, stood before or behind
\* the fixture, whose marker was returned
C15_Witness ==
    /\ Returned
    /\ ObjectFails(doc, 2)
    /\ doc.objs[2].kind = "space"
    /\ Len(self_spaces) = 1 /\ self_spaces[1].xref = 1


-----------------------------------------------------------------------------
(* Failures inside the passes (Spec) and repeated calls (SpecAgain) *)

\* the association pass of the running call is over
AssociationDone == pc \in {"scan", "transform", "return", "after", "end"}

\* every object number an annotation array names
NamedRefs ==
    UNION {{doc.objs[x].refs[k] : k \in 1..Len(doc.objs[x].refs)} : x \in 1..Len(doc.objs)}

\* C16: a page whose processing raises in the association pass contributes no
\* association, and the map is the one the other pages build: an object is in
\* it exactly when a page that did not fail references it, with the last
\* such page as its value
C16_FailingPageSkipped ==
    AssociationDone =>
        /\ DOMAIN page_space_map = {r \in NamedRefs : AssociatingPages(r) # {}}
        /\ \A r \in DOMAIN page_space_map :
              /\ page_space_map[r] \in AssociatingPages(r)
              /\ \A p \in AssociatingPages(r) : p <= page_space_map[r]

\* page 0 names an array that references objects and page 1 fails (it does not
\* load, or its array cannot be fetched): the map holds what page 0 gave
C16_Witness ==
    /\ AssociationDone
    /\ page_count(doc) = 2
    /\ AssociationSucceeds(0) /\ ~AssociationSucceeds(1)
    /\ doc.pages[2].hasBSI
    /\ page_space_map # <<>>
    /\ \A r \in DOMAIN page_space_map : page_space_map[r] = 0


\* C17 (as stated): no failure inside the scan leaves detect_all_spaces; the
\* call always gives its caller a list
C17_NoFailurePropagates == result # "exception"

\* C18 (as stated): when the scan is left, by return or by exception, the
\* document the handler opened is closed without the caller's help: after
\* __exit__ in a with block, and after the call itself where no with block
\* is used (the document was opened inside detect_all_spaces)
C18_EveryHandleClosed ==
    /\ pc = "end" => handle # "open"
    /\ (pc = "after" /\ ~ctx) => handle # "open"

\* C19: the lists that calls of detect_all_spaces on one handler return are
\* equal, element by element, and equal to the list a scan of the same
\* document by a new handler gives
C19_SameListAgain ==
    pc = "after" =>
        /\ \A i, j \in 1..Len(returned) : returned[i] = returned[j]
        /\ \A i \in 1..Len(returned) : returned[i] = DetectAllSpaces(doc)

\* detect_all_spaces returned twice, each time two markers
C19_Witness ==
    /\ pc = "after"
    /\ Len(returned) = 2
    /\ Len(returned[1]) = 2 /\ Len(returned[2]) = 2
    /\ returned[2][1].xref < returned[2][2].xref


-----------------------------------------------------------------------------
(* The cache of the server (SpecApi) *)

\* C20 (as stated): over any interleaving of detect requests a scan is
\* started at most once under the hash of each file that can be scanned
C20_OnceForEachDigest ==
    \A c \in Contents : ~ScanFails(c) => scans[get_file_hash(c)] <= 1

\* C20 (amended): while the detect requests are handled one after another
\* and clear_cache is not called, a scan is started at most once under the
\* hash of each file that can be scanned, and every 200 answer is the
\* result stored under its hash
C20_OnceWhenSerial ==
    (serial /\ ~cleared) =>
        /\ \A c \in Contents : ~ScanFails(c) => scans[get_file_hash(c)] <= 1
        /\ \A th \in Threads :
              reqs[th].code = 200 =>
                  /\ reqs[th].body.file_hash \in DOMAIN spaces_cache
                  /\ reqs[th].body = spaces_cache[reqs[th].body.file_hash]

\* an upload of y.PDF and, after it, a path request for the same bytes were
\* both answered 200 with one scan: the second answer is the stored result
\* (it carries the file name of the upload)
C20_Witness ==
    /\ serial /\ ~cleared
    /\ scans[get_file_hash("a")] = 1
    /\ \A th \in Threads : reqs[th].pc = "idle" /\ reqs[th].code = 200
    /\ \A th \in Threads :
          reqs[th].body.file_hash = get_file_hash("a") /\ reqs[th].body.filename = "y.PDF"


\* the bytes are no PDF (fitz.open raises on them) or exceed the size ceiling
Unacceptable(c) == c \notin DOMAIN ContentDoc \/ ContentSize[c] > MAX_FILE_SIZE

\* C21 (as stated): on both entry points, bytes that are no PDF or that exceed
\* the size ceiling are never handed to the scan and never cached
C21_RejectedBeforeScan ==
    \A c \in Contents :
        Unacceptable(c) =>
            /\ scans[get_file_hash(c)] = 0
            /\ get_file_hash(c) \notin DOMAIN spaces_cache


\* thread th is about to open its file, and fitz.open will raise: the file is
\* gone or its bytes are no PDF
OpenFails(th) ==
    /\ reqs[th].pc = "scan"
    /\ \/ reqs[th].path \notin DOMAIN files
       \/ files[reqs[th].path] \notin DOMAIN ContentDoc

\* C23: the step of a request whose document fails to open ends the request
\* with the one error answer (500, success false), keeps no result, and
\* leaves the cache as it was
C23_OpenFailureIsOneError ==
    [][\A th \in Threads :
          (OpenFails(th) /\ reqs'[th] # reqs[th]) =>
              /\ reqs'[th].pc = "idle"
              /\ reqs'[th].code = 500
              /\ reqs'[th].body = FailureBody
              /\ reqs'[th].result = NoBody
              /\ spaces_cache' = spaces_cache]_vars

\* the bytes that are no PDF were handed to the scan once, the request was
\* answered 500 with success false, and the cache holds nothing for them
C23_Witness ==
    /\ scans[get_file_hash("junk")] = 1
    /\ \E th \in Threads :
          /\ reqs[th].pc = "idle" /\ reqs[th].code = 500
          /\ reqs[th].body = FailureBody
    /\ get_file_hash("junk") \notin DOMAIN spaces_cache

\* C26 (as stated): under every interleaving of the requests, the entry the
\* cache holds under a digest is the scan result of bytes of that digest: its
\* file_hash is the digest and its markers are those a scan of the bytes gives
C26_EntryOfItsDigest ==
    \A h \in DOMAIN spaces_cache :
        \E c \in Contents :
            /\ h = get_file_hash(c)
            /\ ~ScanFails(c)
            /\ spaces_cache[h].file_hash = h
            /\ spaces_cache[h].spaces = ScanResult(spaces_cache[h].filename, h, c).spaces

-----------------------------------------------------------------------------
(* The serialized result (Spec) *)

\* the detect endpoints' result for the document the handler exported
ApiRecord == ResultOf(PathName(pdf_path), get_file_hash("a"), doc)

\* the export wrote its record while the document was open
Exported == exported.status = "json" /\ handle = "open"

\* C22 (as stated): the export and the detect endpoints give the same record
\* shape for the same document: every field name of the export is a field name
\* of the response, and the per-page summaries have the same field names
C22_SameRecordShape ==
    Exported =>
        /\ DOMAIN exported.data \subseteq DOMAIN ApiRecord
        /\ \A k \in 1..Len(ApiRecord.pages) :
               DOMAIN exported.data.pages[k] = DOMAIN ApiRecord.pages[k]


-----------------------------------------------------------------------------
(* The groups of the path array (SpecPath) *)

\* the top-level bracket groups of a text, each without its own brackets
RECURSIVE TopGroups(_, _)
TopGroups(s, i) ==
    IF i > Len(s) THEN <<>>
    ELSE IF s[i] = "["
    THEN LET e == MatchClose(s, i, 0)
         IN  IF e = 0 THEN <<>>
             ELSE <<SubSeq(s, i + 1, e - 1)>> \o TopGroups(s, e + 1)
    ELSE TopGroups(s, i + 1)

\* the group begins with two numbers
LeadingPair(g) == Len(g) >= 2 /\ IsNumeral(g[1]) /\ IsNumeral(g[2])

\* the group holds fewer than two numbers
FewNumbers(g) == Cardinality({k \in 1..Len(g) : IsNumeral(g[k])}) < 2

RECURSIVE GroupVertices(_)
\* one vertex for each group that begins with two numbers
GroupVertices(groups) ==
    IF groups = <<>> THEN <<>>
    ELSE (IF LeadingPair(groups[1])
          THEN << <<NumeralValue[groups[1][1]], NumeralValue[groups[1][2]]>> >>
          ELSE <<>>) \o GroupVertices(Tail(groups))

\* the path value is a balanced array each of whose groups begins with two
\* numbers or holds fewer than two
GroupedPath(o) ==
    /\ o.hasPath
    /\ Len(o.tail) >= 2 /\ o.tail[1] = "["
    /\ MatchClose(o.tail, 1, 0) = Len(o.tail)
    /\ LET groups == TopGroups(PathStr(o), 1)
       IN  \A k \in 1..Len(groups) : LeadingPair(groups[k]) \/ FewNumbers(groups[k])

\* C24 (as stated): every group of the path array that begins with two numbers
\* gives the vertex of those two numbers, whatever follows them in the group,
\* and a group of fewer than two numbers gives none and stops nothing: the
\* polygon is the list of those vertices in text order
C24_VertexOfEachGroup ==
    Returned =>
        \A x \in SpaceXrefs :
            LET o == doc.objs[x] IN
            GroupedPath(o) =>
                LET vertices == GroupVertices(TopGroups(PathStr(o), 1))
                IN  IF vertices = <<>> THEN MarkersOf(x) = {}
                    ELSE /\ MarkersOf(x) # {}
                         /\ \A m \in MarkersOf(x) : m.coordinates = vertices


-----------------------------------------------------------------------------
(* The order of the phases (Spec) *)

\* the passes of detect_all_spaces run one after the other on the open
\* document: no object is scanned before the last page was processed, no
\* marker transformed before the last object was scanned, and the list is
\* returned when every marker was transformed
PhaseOrder ==
    /\ pc \in {"assoc", "scan", "transform", "return"} => handle = "open"
    /\ pc = "assoc" => (page_num < page_count(doc) /\ xref = 1 /\ spaces = <<>> /\ t = 1)
    /\ pc \in {"scan", "transform", "return"} => page_num = page_count(doc)
    /\ pc = "scan" => (xref < xref_length(doc) /\ t = 1)
    /\ pc \in {"transform", "return"} => xref >= xref_length(doc)
    /\ pc = "transform" => t <= Len(spaces)
    /\ pc = "return" => t = Len(spaces) + 1

\* the scan was left: the with block was left, or the call that was made
\* outside a with block is over
ScanLeft == pc = "end" \/ (pc = "after" /\ ~ctx)

\* C25 (as stated): the document is open, then all pages are processed, then
\* all objects scanned, then all markers transformed, then the document is
\* closed; no page_number is looked up before the last page was processed
C25_PhasesThenClosed ==
    /\ PhaseOrder
    /\ ScanLeft => handle = "closed"


-----------------------------------------------------------------------------
(* The order of the returned list (Spec) *)

\* the reference numbers of a list of markers increase strictly
Increasing(sp) == \A i, j \in 1..Len(sp) : i < j => sp[i].xref < sp[j].xref

\* C27: the markers of a scan result are listed in strictly increasing order
\* of reference number, so no two of them share a reference number; the list
\* under construction is in that order too
C27_IncreasingXrefs ==
    /\ Increasing(spaces)
    /\ Returned => Increasing(self_spaces)

\* the call returned the markers of objects 3 and 4, in this order
C27_Witness ==
    /\ Returned
    /\ Len(self_spaces) = 2
    /\ self_spaces[1].xref = 3 /\ self_spaces[2].xref = 4


-----------------------------------------------------------------------------
(* The counts of the serialized result (Spec) *)

RECURSIVE SumCounts(_)
\* the sum of the space_count fields of a list of page summaries
SumCounts(pages) ==
    IF pages = <<>> THEN 0 ELSE pages[1].space_count + SumCounts(Tail(pages))

\* total_spaces is the length of the marker list, each page counts the
\* markers whose page_number is its own, every marker has its page, and the
\* counts add up to total_spaces
CountsAgree(r) ==
    /\ r.total_spaces = Len(r.spaces)
    /\ \A k \in 1..Len(r.pages) :
          /\ r.pages[k].page_number = k - 1
          /\ r.pages[k].space_count =
                Cardinality({i \in 1..Len(r.spaces) : r.spaces[i].page_number = k - 1})
    /\ \A i \in 1..Len(r.spaces) :
          Cardinality({k \in 1..Len(r.pages) :
                          r.pages[k].page_number = r.spaces[i].page_number}) = 1
    /\ SumCounts(r.pages) = r.total_spaces

\* the references a page summary of the export lists
XrefsOn(page) == {page.space_xrefs[k] : k \in 1..Len(page.space_xrefs)}

\* C28: in the serialized result of a document of at least one page, of the
\* export and of the detect endpoints alike, total_spaces is the length of
\* the marker list, every marker is counted on exactly the page of its
\* page_number (the export lists its reference there and nowhere else), the
\* counts of the pages sum to total_spaces, and a marker that no page
\* references is counted on page 0
C28_CountsAddUp ==
    (Exported /\ page_count(doc) >= 1) =>
        /\ CountsAgree(exported.data)
        /\ CountsAgree(ApiRecord)
        /\ \A i \in 1..Len(exported.data.spaces) :
              \A k \in 1..Len(exported.data.pages) :
                  exported.data.spaces[i].xref \in XrefsOn(exported.data.pages[k])
                      <=> exported.data.spaces[i].page_number = k - 1
        /\ \A i \in 1..Len(exported.data.spaces) :
              AssociatingPages(exported.data.spaces[i].xref) = {} =>
                  exported.data.spaces[i].xref \in XrefsOn(exported.data.pages[1])

\* a document of two pages was exported: page 1 references object 3, no page
\* references object 4; each page counts one marker, the orphan on page 0
C28_Witness ==
    /\ Exported
    /\ page_count(doc) = 2
    /\ exported.data.total_spaces = 2
    /\ AssociatingPages(3) = {1} /\ AssociatingPages(4) = {}
    /\ exported.data.pages[1].space_xrefs = <<4>>
    /\ exported.data.pages[2].space_xrefs = <<3>>
    /\ ApiRecord.pages[1].space_count = 1 /\ ApiRecord.pages[2].space_count = 1


-----------------------------------------------------------------------------
(* Objects that several pages reference (Spec) *)

\* the highest of a nonempty set of page indices
LastOf(ps) == CHOOSE p \in ps : \A q \in ps : q <= p

\* the arrays of at least two pages, read without error, reference r
SharedByPages(r) == Cardinality(AssociatingPages(r)) >= 2

\* C29: an object that the annotation arrays of several pages reference is
\* mapped, once the association pass is over, to the last of these pages,
\* the later page having overwritten the earlier, and its marker is returned
\* with the index of that page
C29_SharedObjectOnLastPage ==
    \A r \in 1..Len(doc.objs) :
        SharedByPages(r) =>
            /\ AssociationDone =>
                  (r \in DOMAIN page_space_map
                   /\ page_space_map[r] = LastOf(AssociatingPages(r)))
            /\ Returned =>
                  \A m \in MarkersOf(r) : m.page_number = LastOf(AssociatingPages(r))

\* pages 0 and 1 both reference objects 3 and 4: both markers were returned
\* with page 1, none with page 0
C29_Witness ==
    /\ Returned
    /\ page_count(doc) = 2
    /\ SharedByPages(3) /\ SharedByPages(4)
    /\ page_space_map[3] = 1 /\ page_space_map[4] = 1
    /\ MarkersOf(3) # {} /\ MarkersOf(4) # {}
    /\ \A m \in ReturnedSpaces : m.page_number = 1


-----------------------------------------------------------------------------
(* The consolidated PDFs (SpecPdf) *)

\* the directories of the export folder that hold at least one PNG file
PngDirs ==
    {item \in DOMAIN export_folder.items :
        /\ export_folder.items[item].isDir
        /\ \E file \in export_folder.items[item].files : IsPng(file)}

\* the call is over and found no project_data.json, at its start or later
NoProjectData ==
    /\ pdf_pc = "done"
    /\ ~project_data.bound
    /\ export_folder.project.state = "absent"

\* C30 (as stated): called on an export folder without project_data.json, the
\* function saves one consolidated PDF for every directory that holds at
\* least one PNG file, and returns their number
C30_PngFallback ==
    NoProjectData =>
        /\ DOMAIN consolidated = PngDirs
        /\ pdfs_created = Cardinality(PngDirs)

=============================================================================
